---- MODULE Spec2Model ----
(***************************************************************************)
(* Realtime synchronisation core of the BLE positioning dashboard:         *)
(* the WebSocket connection manager (WebSocketService), the message router *)
(* (WebSocketService.handleMessage) and the domain state stores            *)
(* (MapService, MapConfigService, LocateResultService,                     *)
(* BeaconPositionService, BluetoothDataService, BeaconListService).        *)
(*                                                                         *)
(* Numbers that the code rounds to two decimals are kept in thousandths    *)
(* (300 px/m is 300000) so that toFixed(2) is a real rounding.             *)
(***************************************************************************)
EXTENDS Integers, Sequences, FiniteSets, TLC

(***************************************************************************)
(* Bounds of the environment (calls and network events, never the code).   *)
(***************************************************************************)
MaxStarts == 3      \* start() calls, connection manager on its own
MaxCloses == 3      \* close events, connection manager on its own
MaxSends == 2       \* direct send() calls
StoreStarts == 1    \* start() calls while the stores are exercised
MaxFrames == 2      \* inbound payloads
MaxSubs == 1        \* subscribe() calls
MaxFaultSubs == 2   \* subscribe() calls of listeners that may throw
MaxFaultFrames == 2 \* inbound frames while listeners may throw
MaxScaleFrames == 2 \* inbound payloads while the scale is edited
MaxEdits == 1       \* local edits of the scale
MaxAnchorEdits == 2 \* setCoord / clearCoord calls
MaxAnchorFrames == 1
MaxLocFrames == 3   \* inbound payloads of the locate-result run
MaxRowFrames == 3   \* inbound payloads of the telemetry run
HeldRows == 198     \* rows already held when the telemetry run starts
MaxBeaconFrames == 2 \* inbound payloads of the beacon-list run
MaxBeaconEdits == 2 \* setMacList / addMac / removeBeacon calls
MaxCalCommits == 2  \* calibrations that may reach commitMeterToPixel \* inbound payloads while anchors are edited

(***************************************************************************)
(* Program constants.                                                      *)
(***************************************************************************)
ReconnectDelayMs == 1000

VARIABLES
    ws,              \* WebSocketService.ws: 0 is null, else the socket's index in socks
    socks,           \* readyState of every WebSocket object created so far
    reconnectTimer,  \* WebSocketService.reconnectTimer: 0 is null, else a timer id
    timers,          \* timers pending in the browser (window.setTimeout not yet fired/cleared)
    timerSeq,        \* ids handed out by window.setTimeout
    boundOnce,       \* WebSocketService.boundOnce
    status,          \* last status broadcast by emitStatus ("none" before the first)
    wire,            \* frames handed to WebSocket.send, in order
    dropped,         \* ids of frames for which send() took the "skip send" branch
    sendSeq,         \* number of send() calls so far (identifies a frame)
    startsLeft,      \* start() calls the environment may still make
    closesLeft,      \* close events the network may still deliver
    sendsLeft,       \* direct send() calls the environment may still make
    maps,            \* MapService.maps
    meterToPixel,    \* MapConfigService.state.meterToPixel, in thousandths
    sendFn,          \* MapConfigService.sendFn is bound
    results,         \* LocateResultService state.results
    anchors,         \* BeaconPositionService state {currentMapId, anchorsByMap}
    ble,             \* BluetoothDataService state {realTimeDataList, macList}
    rowSeq,          \* BluetoothDataService.rowSeq
    beacons,         \* BeaconListService.state.macList
    lis,             \* the listeners registered with every store
    decoding,        \* Blob payloads whose text() promise is pending
    framesLeft,      \* payloads the network may still deliver
    editsLeft,       \* local edits the UI may still make
    subsLeft,        \* subscribe() calls the UI may still make
    ui,              \* MapsManager's component state (calibration, drag)
    ev               \* what the last store operation did (observation only)

wsVars == <<ws, socks, reconnectTimer, timers, timerSeq, boundOnce, status,
            wire, dropped, sendSeq, startsLeft, closesLeft, sendsLeft>>

\* the stores' own state and the environment's budgets for them
storeState == <<maps, meterToPixel, results, anchors, ble, rowSeq, beacons,
                lis, decoding, framesLeft, editsLeft, subsLeft>>

vars == <<wsVars, sendFn, storeState, ui, ev>>

(***************************************************************************)
(* Values.  A string that names a device (mac) is a sequence of            *)
(* characters, so that normalizeMac can work on it; a number rounded by    *)
(* the code is an integer count of thousandths.                            *)
(***************************************************************************)
Stores == {"maps", "mapConfig", "locate", "anchors", "ble", "beaconList"}

Listeners == {"l1", "l2"}

MapIds == {"m1", "m2"}

MacA == <<"A">>
MacB == <<"B">>
MacLower == <<"a","a",":","b","b",":","c","c",":","d","d",":","e","e",":","f","f">>
MacPlain == <<"A","A","B","B","C","C","D","D","E","E","F","F">>
MacOne == <<"0","1",":","0","2",":","0","3",":","0","4",":","0","5",":","0","6">>

\* absent / typed field values of a parsed frame
NoStr == [t |-> "absent", v |-> <<>>]
Str(s) == [t |-> "string", v |-> s]
NoNum == [t |-> "absent", v |-> 0]
Num(n) == [t |-> "number", v |-> n]
NoArr == [t |-> "absent", v |-> <<>>]
Arr(a) == [t |-> "array", v |-> a]

(***************************************************************************)
(* BeaconListService: normalizeMac, dedupSort                              *)
(***************************************************************************)
MacHexLen == 12

HexDigits == {"0","1","2","3","4","5","6","7","8","9",
              "a","b","c","d","e","f","A","B","C","D","E","F"}

ToUpper(c) ==
    CASE c = "a" -> "A" [] c = "b" -> "B" [] c = "c" -> "C"
      [] c = "d" -> "D" [] c = "e" -> "E" [] c = "f" -> "F"
      [] OTHER -> c

UpperCase(str) == [i \in 1..Len(str) |-> ToUpper(str[i])]

IsHexDigit(c) == c \in HexDigits

\* hex.match(/.{2}/g).join(":")
JoinPairs(hex) ==
    [i \in 1..(Len(hex) + (Len(hex) \div 2) - 1) |->
        IF i % 3 = 0 THEN ":" ELSE hex[2 * ((i - 1) \div 3) + ((i - 1) % 3) + 1]]

\* a normalizeMac without toUpperCase()
normalizeMacKeepCase(input) ==
    LET hex == SelectSeq(input, IsHexDigit)
    IN  IF Len(hex) # MacHexLen THEN input ELSE JoinPairs(hex)

normalizeMac(input) ==
    LET hex == UpperCase(SelectSeq(input, IsHexDigit))
    IN  IF Len(hex) # MacHexLen THEN UpperCase(input) ELSE JoinPairs(hex)

\* UTF-16 code unit of the characters used
CharCode(c) ==
    CASE c = "-" -> 45 [] c = "0" -> 48 [] c = "1" -> 49 [] c = "2" -> 50
      [] c = "3" -> 51 [] c = "4" -> 52 [] c = "5" -> 53 [] c = "6" -> 54
      [] c = "7" -> 55 [] c = "8" -> 56 [] c = "9" -> 57 [] c = ":" -> 58
      [] c = "A" -> 65 [] c = "B" -> 66 [] c = "C" -> 67 [] c = "D" -> 68
      [] c = "E" -> 69 [] c = "F" -> 70 [] c = "a" -> 97 [] c = "b" -> 98
      [] c = "c" -> 99 [] c = "d" -> 100 [] c = "e" -> 101 [] c = "f" -> 102

RECURSIVE StrLess(_, _)
\* a < b as Array.prototype.sort() compares strings
StrLess(a, b) ==
    IF Len(b) = 0 THEN FALSE
    ELSE IF Len(a) = 0 THEN TRUE
    ELSE IF CharCode(Head(a)) # CharCode(Head(b))
         THEN CharCode(Head(a)) < CharCode(Head(b))
         ELSE StrLess(Tail(a), Tail(b))

RECURSIVE SortSet(_)
\* Array.from(set).sort()
SortSet(S) ==
    IF S = {} THEN <<>>
    ELSE LET m == CHOOSE x \in S : \A y \in S \ {x} : StrLess(x, y)
         IN  <<m>> \o SortSet(S \ {m})

Range(q) == {q[i] : i \in 1..Len(q)}

dedupSort(list) ==
    SortSet({normalizeMac(list[i]) : i \in {j \in 1..Len(list) : list[j] # <<>>}})

(***************************************************************************)
(* Parsed inbound frames (the result of JSON.parse).  A frame is any JSON  *)
(* value; an object carries the fields the stores look at.                 *)
(***************************************************************************)
BlankFrame ==
    [json |-> "object", cmd |-> "", maps |-> NoArr, mtp |-> NoNum,
     mapId |-> "", items |-> NoArr, target |-> NoStr, x |-> NoNum,
     y |-> NoNum, rawT |-> "absent", rawMac |-> NoStr, mac |-> NoStr,
     list |-> NoArr]

FMapList(ms) == [BlankFrame EXCEPT !.cmd = "MapList", !.maps = Arr(ms)]
FMapScale(nv) == [BlankFrame EXCEPT !.cmd = "MapScale", !.mtp = nv]
FLocated(m, px, py) ==
    [BlankFrame EXCEPT !.cmd = "RelayLocated", !.target = m, !.x = px, !.y = py]
FPositions(m, its) ==
    [BlankFrame EXCEPT !.cmd = "BeaconPositions", !.mapId = m, !.items = its]
FRaw(tag, m) == [BlankFrame EXCEPT !.cmd = tag, !.rawT = "object", !.rawMac = m]
FMacList(tag, l) == [BlankFrame EXCEPT !.cmd = tag, !.list = l]
FMac(tag, m) == [BlankFrame EXCEPT !.cmd = tag, !.mac = m]

Item(m, px, py) == [mac |-> m, x |-> px, y |-> py]

Frames ==
    { FMapList(<<"m1">>),
      [BlankFrame EXCEPT !.cmd = "MapList", !.maps = [t |-> "other", v |-> <<>>]],
      FMapScale(Num(150000)), FMapScale(Num(12346)), FMapScale(Num(-2000)),
      FMapScale([t |-> "string", v |-> 0]),
      FLocated(Str(MacA), [t |-> "numstr", v |-> 3000], NoNum),
      FLocated(Str(<<>>), Num(1000), Num(2000)),
      FPositions("m1", Arr(<<Item(MacB, 0, 0), Item(<<>>, 5000, 5000)>>)),
      FPositions("", Arr(<<Item(MacA, 1000, 2000)>>)),
      FRaw("", Str(MacA)), FRaw("Foo", Str(MacB)),
      FRaw("", [t |-> "number", v |-> <<>>]),
      [FMapList(<<"m2">>) EXCEPT !.rawT = "object", !.rawMac = Str(MacA)],
      FMacList("MacList", Arr(<<MacLower, MacOne, MacPlain>>)),
      FMac("BeaconAdded", Str(MacLower)), FMac("BeaconRemoved", Str(MacPlain)),
      FMac("MacAdded", [t |-> "number", v |-> <<>>]),
      [BlankFrame EXCEPT !.cmd = "Foo"],
      [BlankFrame EXCEPT !.json = "null"] }

\* the frames that may arrive as a Blob
BlobFrames == {FMapScale(Num(150000))}

(***************************************************************************)
(* MapService.ingestFrame / loadFromServer                                 *)
(***************************************************************************)
IngestMaps(msg) ==
    IF msg.json = "object" /\ msg.cmd = "MapList" /\ msg.maps.t = "array"
    THEN [ret |-> TRUE, st |-> msg.maps.v, fresh |-> TRUE,
          calls |-> Cardinality(lis["maps"]), sent |-> 0]
    ELSE [ret |-> FALSE, st |-> maps, fresh |-> FALSE, calls |-> 0, sent |-> 0]

(***************************************************************************)
(* MapConfigService                                                        *)
(***************************************************************************)
DefaultMeterToPixel == 300000

\* Number(n.toFixed(2)) on thousandths, n > 0
Round2(n) == ((n + 5) \div 10) * 10

\* normalize(v): ok is FALSE for null
normalize(nv) ==
    IF nv.t # "number" \/ nv.v <= 0
    THEN [ok |-> FALSE, v |-> 0]
    ELSE [ok |-> TRUE, v |-> Round2(nv.v)]

\* setMeterToPixelLocal(value): assigns this.state.meterToPixel, the state
\* object stays the same one
setMeterToPixelLocal(value) ==
    IF meterToPixel = value
    THEN [changed |-> FALSE, st |-> meterToPixel, fresh |-> FALSE, calls |-> 0]
    ELSE [changed |-> TRUE, st |-> value, fresh |-> FALSE,
          calls |-> Cardinality(lis["mapConfig"])]

\* an ingestFrame that goes through the sending setter
IngestMapConfigResend(msg) ==
    IF msg.json = "object" /\ msg.cmd = "MapScale" /\ msg.mtp.t \in {"number", "inf"}
    THEN LET fixed == normalize(msg.mtp)
             loc == setMeterToPixelLocal(fixed.v)
         IN  IF ~fixed.ok
             THEN [ret |-> TRUE, st |-> meterToPixel, fresh |-> FALSE,
                   calls |-> 0, sent |-> 0]
             ELSE [ret |-> TRUE, st |-> loc.st, fresh |-> loc.fresh,
                   calls |-> loc.calls,
                   sent |-> IF loc.changed /\ sendFn THEN 1 ELSE 0]
    ELSE [ret |-> FALSE, st |-> meterToPixel, fresh |-> FALSE,
          calls |-> 0, sent |-> 0]

IngestMapConfig(msg) ==
    IF msg.json = "object" /\ msg.cmd = "MapScale" /\ msg.mtp.t \in {"number", "inf"}
    THEN LET fixed == normalize(msg.mtp)
             loc == setMeterToPixelLocal(fixed.v)
         IN  IF ~fixed.ok
             THEN [ret |-> TRUE, st |-> meterToPixel, fresh |-> FALSE,
                   calls |-> 0, sent |-> 0]
             ELSE [ret |-> TRUE, st |-> loc.st, fresh |-> loc.fresh,
                   calls |-> loc.calls, sent |-> 0]
    ELSE [ret |-> FALSE, st |-> meterToPixel, fresh |-> FALSE,
          calls |-> 0, sent |-> 0]

(***************************************************************************)
(* LocateResultService (of a record only mac, x, y are kept)               *)
(***************************************************************************)
\* typeof v === "number" ? v : Number(v), then Number.isFinite(..) ? .. : 0
FiniteOrZero(nv) == IF nv.t \in {"number", "numstr"} THEN nv.v ELSE 0

pushLocate(rec) ==
    [m \in DOMAIN results \cup {rec.mac} |->
        IF m = rec.mac THEN rec ELSE results[m]]

IngestLocate(msg) ==
    IF /\ msg.json = "object"
       /\ msg.cmd = "RelayLocated"
       /\ msg.target.t = "string"
       /\ Len(msg.target.v) # 0
    THEN [ret |-> TRUE,
          st |-> pushLocate([mac |-> msg.target.v, x |-> FiniteOrZero(msg.x),
                             y |-> FiniteOrZero(msg.y)]),
          fresh |-> TRUE, calls |-> Cardinality(lis["locate"]), sent |-> 0]
    ELSE [ret |-> FALSE, st |-> results, fresh |-> FALSE, calls |-> 0, sent |-> 0]

(***************************************************************************)
(* BeaconPositionService (per-map anchors)                                 *)
(***************************************************************************)
\* the record built by items.forEach in loadFromServer
ItemsToAnchors(items) ==
    LET idx == {i \in 1..Len(items) : items[i].mac # <<>>}
        last(m) == CHOOSE i \in idx :
                      /\ items[i].mac = m
                      /\ \A j \in idx : items[j].mac = m => j <= i
    IN  [m \in {items[i].mac : i \in idx} |-> items[last(m)]]

\* a loadFromServer that keeps an anchor the map already holds
loadFromServerKeepLocal(mapId, items) ==
    [anchors EXCEPT !.anchorsByMap =
        [k \in DOMAIN anchors.anchorsByMap \cup {mapId} |->
            IF k = mapId
            THEN [a \in DOMAIN ItemsToAnchors(items) |->
                    IF k \in DOMAIN anchors.anchorsByMap
                       /\ a \in DOMAIN anchors.anchorsByMap[k]
                    THEN anchors.anchorsByMap[k][a]
                    ELSE ItemsToAnchors(items)[a]]
            ELSE anchors.anchorsByMap[k]]]

loadFromServer(mapId, items) ==
    [anchors EXCEPT !.anchorsByMap =
        [k \in DOMAIN anchors.anchorsByMap \cup {mapId} |->
            IF k = mapId THEN ItemsToAnchors(items)
            ELSE anchors.anchorsByMap[k]]]

IngestAnchors(msg) ==
    IF /\ msg.json = "object"
       /\ msg.cmd = "BeaconPositions"
       /\ msg.mapId # ""
       /\ msg.items.t = "array"
    THEN [ret |-> TRUE, st |-> loadFromServer(msg.mapId, msg.items.v),
          fresh |-> TRUE, calls |-> Cardinality(lis["anchors"]), sent |-> 0]
    ELSE [ret |-> FALSE, st |-> anchors, fresh |-> FALSE, calls |-> 0, sent |-> 0]

(***************************************************************************)
(* BeaconPositionService (single anchor set, the registered service)       *)
(***************************************************************************)
\* super({ anchors: {} })
NoAnchorsFlat == [anchors |-> <<>>]

\* which BeaconPositionService holds the state
IsFlat == "anchors" \in DOMAIN anchors

\* next = { ...anchors }; items.forEach(i => next[i.mac] = {...})
loadFromServerFlat(items) ==
    [anchors |->
        [k \in DOMAIN anchors.anchors \cup DOMAIN ItemsToAnchors(items) |->
            IF k \in DOMAIN ItemsToAnchors(items)
            THEN ItemsToAnchors(items)[k] ELSE anchors.anchors[k]]]

IngestAnchorsFlat(msg) ==
    IF /\ msg.json = "object"
       /\ msg.cmd = "BeaconPositions"
       /\ msg.items.t = "array"
    THEN [ret |-> TRUE, st |-> loadFromServerFlat(msg.items.v),
          fresh |-> TRUE, calls |-> Cardinality(lis["anchors"]), sent |-> 0]
    ELSE [ret |-> FALSE, st |-> anchors, fresh |-> FALSE, calls |-> 0, sent |-> 0]

(***************************************************************************)
(* BluetoothDataService (of a row only key and mac are kept)               *)
(***************************************************************************)
RowCap == 200

\* a slice(-n): the first element is the one dropped
TakeLast(q, n) == IF Len(q) <= n THEN q ELSE SubSeq(q, Len(q) - n + 1, Len(q))

\* q.slice(0, n)
Take(q, n) == IF Len(q) <= n THEN q ELSE SubSeq(q, 1, n)

\* Array.from(new Set(q)): first occurrences, in order
RECURSIVE Dedup(_)
Dedup(q) ==
    IF q = <<>> THEN <<>>
    ELSE LET r == Dedup(SubSeq(q, 1, Len(q) - 1))
         IN  IF q[Len(q)] \in Range(r) THEN r ELSE Append(r, q[Len(q)])

pushRow(row) ==
    [realTimeDataList |-> Take(<<row>> \o ble.realTimeDataList, RowCap),
     macList |-> Dedup(<<row.mac>> \o ble.macList)]

IngestBle(msg) ==
    IF msg.json = "object" /\ msg.rawT = "object" /\ msg.rawMac.t = "string"
    THEN [ret |-> TRUE,
          st |-> [ble |-> pushRow([key |-> rowSeq, mac |-> msg.rawMac.v]),
                  rowSeq |-> rowSeq + 1],
          fresh |-> TRUE, calls |-> Cardinality(lis["ble"]), sent |-> 0]
    ELSE [ret |-> FALSE, st |-> [ble |-> ble, rowSeq |-> rowSeq],
          fresh |-> FALSE, calls |-> 0, sent |-> 0]

(***************************************************************************)
(* BeaconListService                                                       *)
(***************************************************************************)
FullListTags == {"MacList", "BeaconMacList", "BeaconList", "BeaconMacs"}
AddedTags == {"BeaconAdded", "MacAdded"}
RemovedTags == {"BeaconRemoved", "MacRemoved"}

\* msg.mac_list ?? msg.maclist ?? msg.macs ?? msg.list ?? msg.items ?? msg.beaconlist
\* (an items array of anchor objects is a string array only when empty)
MacListField(msg) ==
    IF msg.list.t # "absent" THEN msg.list
    ELSE IF msg.items.t = "array" /\ msg.items.v = <<>> THEN Arr(<<>>)
    ELSE IF msg.items.t # "absent" THEN [t |-> "other", v |-> <<>>]
    ELSE NoArr

\* msg.mac ?? msg.target_mac ?? msg.addr
MacField(msg) == IF msg.mac.t # "absent" THEN msg.mac ELSE msg.target

addMac(mac) == SortSet(Range(beacons) \cup {normalizeMac(mac)})

\* a removeMacLocal that leaves the list to the server's next full list
removeMacLocalKeep(mac) == beacons

removeMacLocal(mac) == SelectSeq(beacons, LAMBDA m : m # normalizeMac(mac))

\* an emit on behalf of a frame that also tells the server
EmittedAndSent(list) ==
    [ret |-> TRUE, st |-> list, fresh |-> TRUE,
     calls |-> Cardinality(lis["beaconList"]), sent |-> 1]

\* every emit installs a new state object and calls every listener
Emitted(list) ==
    [ret |-> TRUE, st |-> list, fresh |-> TRUE,
     calls |-> Cardinality(lis["beaconList"]), sent |-> 0]

\* an ingestFrame whose last line answers true
IngestBeaconListClaimsAll(msg) ==
    LET same == [ret |-> TRUE, st |-> beacons, fresh |-> FALSE,
                 calls |-> 0, sent |-> 0]
    IN  IF msg.json # "object"
        THEN [same EXCEPT !.ret = FALSE]
        ELSE IF msg.cmd \in FullListTags
        THEN IF MacListField(msg).t = "array"
             THEN Emitted(dedupSort(MacListField(msg).v))
             ELSE same
        ELSE IF msg.cmd \in AddedTags
        THEN IF MacField(msg).t = "string"
             THEN Emitted(addMac(MacField(msg).v))
             ELSE same
        ELSE IF msg.cmd \in RemovedTags
        THEN IF MacField(msg).t = "string"
             THEN Emitted(removeMacLocal(MacField(msg).v))
             ELSE same
        ELSE same

IngestBeaconList(msg) ==
    LET same == [ret |-> TRUE, st |-> beacons, fresh |-> FALSE,
                 calls |-> 0, sent |-> 0]
    IN  IF msg.json # "object"
        THEN [same EXCEPT !.ret = FALSE]
        ELSE IF msg.cmd \in FullListTags
        THEN IF MacListField(msg).t = "array"
             THEN Emitted(dedupSort(MacListField(msg).v))
             ELSE same
        ELSE IF msg.cmd \in AddedTags
        THEN IF MacField(msg).t = "string"
             THEN Emitted(addMac(MacField(msg).v))
             ELSE same
        ELSE IF msg.cmd \in RemovedTags
        THEN IF MacField(msg).t = "string"
             THEN Emitted(removeMacLocal(MacField(msg).v))
             ELSE same
        ELSE [same EXCEPT !.ret = FALSE]

(***************************************************************************)
(* WebSocketService.handleMessage: the services loop                       *)
(***************************************************************************)
\* const services = [maps, mapConfig, locate, anchors, ble, beaconList]
Services == <<"maps", "mapConfig", "locate", "anchors", "ble", "beaconList">>

IngestFrame(s, msg) ==
    CASE s = "maps" -> IngestMaps(msg)
      [] s = "mapConfig" -> IngestMapConfig(msg)
      [] s = "locate" -> IngestLocate(msg)
      [] s = "anchors" -> IF IsFlat THEN IngestAnchorsFlat(msg)
                          ELSE IngestAnchors(msg)
      [] s = "ble" -> IngestBle(msg)
      [] s = "beaconList" -> IngestBeaconList(msg)

\* what a store that was not offered the frame leaves behind
Unoffered(s) ==
    [ret |-> FALSE,
     st |-> CASE s = "maps" -> maps
              [] s = "mapConfig" -> meterToPixel
              [] s = "locate" -> results
              [] s = "anchors" -> anchors
              [] s = "ble" -> [ble |-> ble, rowSeq |-> rowSeq]
              [] s = "beaconList" -> beacons,
     fresh |-> FALSE, calls |-> 0, sent |-> 0]

\* let handled = false, before the loop
NoLog ==
    [order |-> <<>>, handled |-> FALSE, res |-> [s \in Stores |-> Unoffered(s)]]

RECURSIVE ServicesLoopFirstClaim(_, _, _)
\* a loop that stops at the first store that claims the frame
ServicesLoopFirstClaim(i, msg, log) ==
    IF i > Len(Services) \/ log.handled THEN log
    ELSE LET s == Services[i]
             r == IngestFrame(s, msg)
         IN  ServicesLoopFirstClaim(i + 1, msg,
                 [order |-> Append(log.order, s),
                  handled |-> r.ret \/ log.handled,
                  res |-> [log.res EXCEPT ![s] = r]])

RECURSIVE ServicesLoop(_, _, _)
\* for (const s of services) { handled = s.ingestFrame(msg) || handled }
ServicesLoop(i, msg, log) ==
    IF i > Len(Services) THEN log
    ELSE LET s == Services[i]
             r == IngestFrame(s, msg)
         IN  ServicesLoop(i + 1, msg,
                 [order |-> Append(log.order, s),
                  handled |-> r.ret \/ log.handled,
                  res |-> [log.res EXCEPT ![s] = r]])

(***************************************************************************)
(* What the last store operation did.                                      *)
(***************************************************************************)
NoEv ==
    [op |-> "none", frame |-> BlankFrame, order |-> <<>>, handled |-> FALSE,
     ret |-> [s \in Stores |-> FALSE], fresh |-> [s \in Stores |-> FALSE],
     calls |-> [s \in Stores |-> 0], sent |-> [s \in Stores |-> 0],
     store |-> "", lis |-> "", arg |-> NoNum, out |-> <<>>,
     map |-> "", mac |-> <<>>, xy |-> <<0, 0>>, threw |-> FALSE,
     replay |-> 0]

\* BeaconPositionService (per-map): super({ currentMapId: null, anchorsByMap: {} })
NoAnchors == [currentMapId |-> "", anchorsByMap |-> <<>>]

\* BluetoothDataService: super({ realTimeDataList: [], macList: [] })
NoRows == [realTimeDataList |-> <<>>, macList |-> <<>>]

\* MapsManager: the useState() and useRef() initial values.  dragMac,
\* dragRaf, dragPending and dragLastSent are dragRef.current (<<>> and 0 for
\* null); listeners holds, in the order of their registration, the layout and
\* scale each registered set of window pointer listeners closed over; frames
\* are the window's requested animation-frame callbacks and running those of
\* the frame being run; dragCommits, frameCommits and release record the
\* setCoord calls of the current drag, of the current frame, and the last
\* pointer-up; pickedOn records, for each calibration point, the map that
\* was selected when it was picked.
NoLayout == [rw |-> 0, rh |-> 0, left |-> 0, top |-> 0, iw |-> 0, ih |-> 0]

NoUi ==
    [op |-> "none", click |-> <<0, 0>>, mapScale |-> FALSE, layout |-> NoLayout,
     calibMode |-> FALSE, calibPoints |-> <<>>, calibModalOpen |-> FALSE,
     calibMeters |-> 1000, calibPixelDist |-> 0, pickedOn |-> <<>>,
     meterToPixel |-> 300000,
     dragMac |-> <<>>, dragRaf |-> 0, dragPending |-> <<>>, dragLastSent |-> <<>>,
     mounted |-> TRUE, listeners |-> <<>>,
     frames |-> <<>>, running |-> <<>>,
     dragCommits |-> <<>>, frameCommits |-> 0, release |-> <<>>]

\* the stores other than the anchor store and the telemetry store
QuietStoresInit ==
    /\ ui = NoUi
    /\ maps = <<>>
    /\ meterToPixel = DefaultMeterToPixel
    /\ results = <<>>
    /\ beacons = <<>>
    /\ lis = [s \in Stores |-> {}]
    /\ decoding = <<>>
    /\ ev = NoEv

\* the stores other than the anchor store
OtherStoresInit ==
    /\ QuietStoresInit
    /\ ble = NoRows
    /\ rowSeq = 1

StoresInit ==
    /\ OtherStoresInit
    /\ anchors = NoAnchors

(***************************************************************************)
(* The browser's WebSocket object.                                         *)
(***************************************************************************)
ReadyStates == {"CONNECTING", "OPEN", "CLOSING", "CLOSED"}

SockIds == 1..Len(socks)

\* sockets whose connection is opening or open
LiveSocks == {s \in SockIds : socks[s] \in {"CONNECTING", "OPEN"}}

\* sockets that have not delivered their close event yet
UnclosedSocks == {s \in SockIds : socks[s] # "CLOSED"}

(***************************************************************************)
(* WebSocketService.connect                                                *)
(***************************************************************************)
\* the guard of connect(): this.ws is OPEN or CONNECTING
ConnectGuard(h, ss) ==
    /\ h # 0
    /\ ss[h] \in {"OPEN", "CONNECTING"}

\* connect() run with the pending-timer set tm (the caller may just have
\* removed the timer that fired)
Connect(tm) ==
    IF ConnectGuard(ws, socks)
    THEN /\ timers' = tm
         /\ UNCHANGED <<ws, socks, reconnectTimer, status>>
    ELSE /\ timers' = IF reconnectTimer # 0
                      THEN {t \in tm : t.id # reconnectTimer}
                      ELSE tm
         /\ reconnectTimer' = 0
         /\ status' = "connecting"
         /\ socks' = Append(socks, "CONNECTING")
         /\ ws' = Len(socks) + 1

(***************************************************************************)
(* WebSocketService.start                                                  *)
(***************************************************************************)
Start ==
    /\ startsLeft > 0
    /\ startsLeft' = startsLeft - 1
    /\ boundOnce' = TRUE
    /\ sendFn' = TRUE       \* mapConfigRaw.bindSender((obj) => this.send(obj))
    /\ ui' = ui
    /\ Connect(timers)
    /\ ev' = NoEv
    /\ UNCHANGED <<timerSeq, wire, dropped, sendSeq, closesLeft, sendsLeft>>
    /\ UNCHANGED storeState

(***************************************************************************)
(* ws.onopen                                                               *)
(***************************************************************************)
OnOpen(s) ==
    /\ socks[s] = "CONNECTING"
    /\ socks' = [socks EXCEPT ![s] = "OPEN"]
    /\ status' = "connected"
    /\ ev' = NoEv
    /\ UNCHANGED <<ws, reconnectTimer, timers, timerSeq, boundOnce,
                   wire, dropped, sendSeq, startsLeft, closesLeft, sendsLeft>>
    /\ UNCHANGED <<sendFn, ui, storeState>>

(***************************************************************************)
(* The peer starts the closing handshake: readyState becomes CLOSING, no   *)
(* handler of the program runs.                                            *)
(***************************************************************************)
BeginClosing(s) ==
    /\ socks[s] = "OPEN"
    /\ socks' = [socks EXCEPT ![s] = "CLOSING"]
    /\ ev' = NoEv
    /\ UNCHANGED <<ws, reconnectTimer, timers, timerSeq, boundOnce, status,
                   wire, dropped, sendSeq, startsLeft, closesLeft, sendsLeft>>
    /\ UNCHANGED <<sendFn, ui, storeState>>

(***************************************************************************)
(* ws.onclose                                                              *)
(***************************************************************************)
\* the timers pending after onclose has scheduled timer id n
ScheduleNothing(tm, rt, n) == tm

ScheduleReconnect(tm, rt, n) ==
    tm \cup {[id |-> n, delay |-> ReconnectDelayMs]}

OnClose(s) ==
    /\ closesLeft > 0
    /\ socks[s] # "CLOSED"
    /\ closesLeft' = closesLeft - 1
    /\ socks' = [socks EXCEPT ![s] = "CLOSED"]
    /\ ws' = 0
    /\ status' = "disconnected"
    /\ timerSeq' = timerSeq + 1
    /\ timers' = ScheduleReconnect(timers, reconnectTimer, timerSeq + 1)
    /\ reconnectTimer' = timerSeq + 1
    /\ ev' = NoEv
    /\ UNCHANGED <<boundOnce, wire, dropped, sendSeq, startsLeft, sendsLeft>>
    /\ UNCHANGED <<sendFn, ui, storeState>>

(***************************************************************************)
(* The reconnect timer fires: () => this.connect()                         *)
(***************************************************************************)
TimerFire(t) ==
    /\ t \in timers
    /\ Connect(timers \ {t})
    /\ ev' = NoEv
    /\ UNCHANGED <<timerSeq, boundOnce, wire, dropped, sendSeq,
                   startsLeft, closesLeft, sendsLeft>>
    /\ UNCHANGED <<sendFn, ui, storeState>>

(***************************************************************************)
(* WebSocketService.send                                                   *)
(***************************************************************************)
OutCmds == {"GetMapList", "GetMapScale", "GetBeaconList", "SetMapScale"}

SocketOpen == ws # 0 /\ socks[ws] = "OPEN"

\* the wire after send(m) as call number n
WireAfterSendQueued(w, open, n, m) ==
    Append(w, [id |-> n, msg |-> m])

WireAfterSend(w, open, n, m) ==
    IF open THEN Append(w, [id |-> n, msg |-> m]) ELSE w

DroppedAfterSend(d, open, n) ==
    IF open THEN d ELSE d \cup {n}

\* the effect of one call send(m) on the manager
DoSend(m) ==
    /\ sendSeq' = sendSeq + 1
    /\ wire' = WireAfterSend(wire, SocketOpen, sendSeq + 1, m)
    /\ dropped' = DroppedAfterSend(dropped, SocketOpen, sendSeq + 1)

\* send() called directly (the UI's requests)
Send(c) ==
    /\ sendsLeft > 0
    /\ sendsLeft' = sendsLeft - 1
    /\ DoSend([cmd |-> c, v |-> 0])
    /\ ev' = NoEv
    /\ UNCHANGED <<ws, socks, reconnectTimer, timers, timerSeq, boundOnce,
                   status, startsLeft, closesLeft>>
    /\ UNCHANGED <<sendFn, ui, storeState>>

(***************************************************************************)
(* The connection manager on its own.                                      *)
(***************************************************************************)
TransportInit ==
    /\ ws = 0
    /\ socks = <<>>
    /\ reconnectTimer = 0
    /\ timers = {}
    /\ timerSeq = 0
    /\ boundOnce = FALSE
    /\ status = "none"
    /\ wire = <<>>
    /\ dropped = {}
    /\ sendSeq = 0
    /\ sendFn = FALSE

WsInit ==
    /\ TransportInit
    /\ StoresInit

Init ==
    /\ WsInit
    /\ startsLeft = MaxStarts
    /\ closesLeft = MaxCloses
    /\ sendsLeft = MaxSends
    /\ framesLeft = 0
    /\ editsLeft = 0
    /\ subsLeft = 0

Next ==
    \/ Start
    \/ \E s \in SockIds : OnOpen(s)
    \/ \E s \in SockIds : BeginClosing(s)
    \/ \E s \in SockIds : OnClose(s)
    \/ \E t \in timers : TimerFire(t)
    \/ \E c \in OutCmds : Send(c)

Spec == Init /\ [][Next]_vars

\* the browser fires a pending timer
FairSpec == Spec /\ \A n \in 1..MaxCloses :
                      WF_vars(TimerFire([id |-> n, delay |-> ReconnectDelayMs]))

(***************************************************************************)
(* WebSocketService.handleMessage                                          *)
(***************************************************************************)
\* the loop over the stores for a parsed frame, with everything the stores
\* do to their state, their listeners and the manager
Dispatch(msg) ==
    \E log \in {ServicesLoop(1, msg, NoLog)} :
        /\ maps' = log.res["maps"].st
        /\ meterToPixel' = log.res["mapConfig"].st
        /\ results' = log.res["locate"].st
        /\ anchors' = log.res["anchors"].st
        /\ ble' = log.res["ble"].st.ble
        /\ rowSeq' = log.res["ble"].st.rowSeq
        /\ beacons' = log.res["beaconList"].st
        /\ IF log.res["mapConfig"].sent > 0
           THEN DoSend([cmd |-> "SetMapScale", v |-> log.res["mapConfig"].st])
           ELSE IF log.res["beaconList"].sent > 0
           THEN DoSend([cmd |-> "RemoveBeacon", v |-> log.res["beaconList"].st])
           ELSE UNCHANGED <<wire, dropped, sendSeq>>
        /\ ev' = [NoEv EXCEPT
                    !.op = "dispatch",
                    !.frame = msg,
                    !.order = log.order,
                    !.handled = log.handled,
                    !.ret = [s \in Stores |-> log.res[s].ret],
                    !.fresh = [s \in Stores |-> log.res[s].fresh],
                    !.calls = [s \in Stores |-> log.res[s].calls],
                    !.sent = [s \in Stores |-> log.res[s].sent]]

\* handleMessage on a string: JSON.parse, then the loop
HandleText(d) ==
    IF d.ok
    THEN Dispatch(d.msg)
    ELSE /\ ev' = [NoEv EXCEPT !.op = "unparsable"]
         /\ UNCHANGED <<maps, meterToPixel, results, anchors, ble, rowSeq,
                        beacons, wire, dropped, sendSeq>>

Payloads ==
    [kind : {"text"}, ok : {TRUE}, msg : Frames]
      \cup [kind : {"blob"}, ok : {TRUE}, msg : BlobFrames]
      \cup [kind : {"text"}, ok : {FALSE}, msg : {BlankFrame}]

\* ws.onmessage = (ev) => this.handleMessage(ev.data)
OnMessage(s, d) ==
    /\ framesLeft > 0
    /\ socks[s] = "OPEN"
    /\ framesLeft' = framesLeft - 1
    /\ IF d.kind = "blob"
       THEN /\ decoding' = Append(decoding, d)
            /\ ev' = [NoEv EXCEPT !.op = "blob"]
            /\ UNCHANGED <<maps, meterToPixel, results, anchors, ble, rowSeq,
                           beacons, wire, dropped, sendSeq>>
       ELSE /\ HandleText(d)
            /\ UNCHANGED decoding
    /\ UNCHANGED <<ws, socks, reconnectTimer, timers, timerSeq, boundOnce,
                   status, startsLeft, closesLeft, sendsLeft>>
    /\ UNCHANGED <<sendFn, ui, lis, editsLeft, subsLeft>>

\* data.text().then((text) => this.handleMessage(text)); the reads of
\* different Blobs complete in any order
BlobDecoded(i) ==
    /\ i \in 1..Len(decoding)
    /\ decoding' = SubSeq(decoding, 1, i - 1) \o SubSeq(decoding, i + 1, Len(decoding))
    /\ HandleText(decoding[i])
    /\ UNCHANGED <<ws, socks, reconnectTimer, timers, timerSeq, boundOnce,
                   status, startsLeft, closesLeft, sendsLeft>>
    /\ UNCHANGED <<sendFn, ui, lis, framesLeft, editsLeft, subsLeft>>

\* the ratio the scale store gives for map m: getState() returns the one
\* { meterToPixel } whatever the map
ScaleOf(m) == meterToPixel

(***************************************************************************)
(* subscribe / the returned unsubscribe                                    *)
(***************************************************************************)
\* MapService, MapConfigService, BeaconListService: listeners.add(fn); fn(state)
OwnListenerSet == {"maps", "mapConfig", "beaconList"}

\* StateBase.subscribe: return this.__store.subscribe(listener), which
\* registers the listener and calls it on later changes only
ReplayOnSubscribe(s) == IF s \in OwnListenerSet THEN 1 ELSE 0

Subscribe(s, l) ==
    /\ subsLeft > 0
    /\ subsLeft' = subsLeft - 1
    /\ lis' = [lis EXCEPT ![s] = @ \cup {l}]
    /\ ev' = [NoEv EXCEPT !.op = "subscribe", !.store = s, !.lis = l,
                          !.replay = ReplayOnSubscribe(s)]
    /\ UNCHANGED <<wsVars, sendFn, ui, maps, meterToPixel, results, anchors, ble,
                   rowSeq, beacons, decoding, framesLeft, editsLeft>>

Unsubscribe(s, l) ==
    /\ l \in lis[s]
    /\ lis' = [lis EXCEPT ![s] = @ \ {l}]
    /\ ev' = [NoEv EXCEPT !.op = "unsubscribe", !.store = s, !.lis = l]
    /\ UNCHANGED <<wsVars, sendFn, ui, maps, meterToPixel, results, anchors, ble,
                   rowSeq, beacons, decoding, framesLeft, editsLeft, subsLeft>>

(***************************************************************************)
(* MapConfigService.setMeterToPixel (the local edit), sendToServer         *)
(***************************************************************************)
EditRatios ==
    {Num(150000), Num(12346), Num(4), Num(0), Num(-2000),
     [t |-> "inf", v |-> 0], [t |-> "nan", v |-> 0]}

\* the messages sendToServer gives to an unbound sender
sendToServerNever(meterToPixelFixed) == <<>>

\* the messages sendToServer(meterToPixel) gives to sendFn
sendToServer(meterToPixelFixed) ==
    IF sendFn
    THEN <<[cmd |-> "SetMapScale", v |-> meterToPixelFixed]>>
    ELSE <<>>

\* what one call setMeterToPixel(nv) does to the store and the transport
CallSetMeterToPixel(nv) ==
    LET fixed == normalize(nv)
        loc == setMeterToPixelLocal(fixed.v)
        out == IF fixed.ok /\ loc.changed THEN sendToServer(fixed.v) ELSE <<>>
    IN  /\ meterToPixel' = IF fixed.ok THEN loc.st ELSE meterToPixel
        /\ IF out # <<>>
           THEN DoSend(out[1])
           ELSE UNCHANGED <<wire, dropped, sendSeq>>
        /\ ev' = [NoEv EXCEPT
                    !.op = "setMeterToPixel",
                    !.store = "mapConfig",
                    !.arg = nv,
                    !.out = out,
                    !.fresh = [NoEv.fresh EXCEPT !["mapConfig"] = fixed.ok /\ loc.fresh],
                    !.calls = [NoEv.calls EXCEPT
                                 !["mapConfig"] = IF fixed.ok THEN loc.calls ELSE 0],
                    !.sent = [NoEv.sent EXCEPT !["mapConfig"] = Len(out)]]

SetMeterToPixel(nv) ==
    /\ editsLeft > 0
    /\ editsLeft' = editsLeft - 1
    /\ CallSetMeterToPixel(nv)
    /\ UNCHANGED <<ws, socks, reconnectTimer, timers, timerSeq, boundOnce,
                   status, startsLeft, closesLeft, sendsLeft>>
    /\ UNCHANGED <<sendFn, ui, maps, results, anchors, ble, rowSeq, beacons,
                   lis, decoding, framesLeft, subsLeft>>

(***************************************************************************)
(* The router and the stores behind one connection.                        *)
(***************************************************************************)
InitStores ==
    /\ WsInit
    /\ startsLeft = StoreStarts
    /\ closesLeft = 0
    /\ sendsLeft = 0
    /\ framesLeft = MaxFrames
    /\ editsLeft = 0
    /\ subsLeft = MaxSubs

NextStores ==
    \/ Start
    \/ \E s \in SockIds : OnOpen(s)
    \/ \E s \in SockIds : \E d \in Payloads : OnMessage(s, d)
    \/ \E i \in 1..Len(decoding) : BlobDecoded(i)
    \/ \E s \in Stores : \E l \in Listeners : Subscribe(s, l)
    \/ \E s \in Stores : \E l \in Listeners : Unsubscribe(s, l)

SpecStores == InitStores /\ [][NextStores]_vars

(***************************************************************************)
(* The scale store between the operator's edits and the server's updates.  *)
(***************************************************************************)
ScalePayloads ==
    [kind : {"text"}, ok : {TRUE},
     msg : {FMapScale(Num(150000)), FMapScale(Num(12346)), FMapScale(Num(4)),
            FMapScale(Num(-2000)), FMapScale([t |-> "inf", v |-> 0]),
            FMapScale([t |-> "string", v |-> 0]),
            [FMapScale(Num(200000)) EXCEPT !.mapId = "m1"],
            [BlankFrame EXCEPT !.cmd = "Foo"]}]

InitScale ==
    /\ WsInit
    /\ startsLeft = StoreStarts
    /\ closesLeft = 0
    /\ sendsLeft = 0
    /\ framesLeft = MaxScaleFrames
    /\ editsLeft = MaxEdits
    /\ subsLeft = MaxSubs

NextScale ==
    \/ Start
    \/ \E s \in SockIds : OnOpen(s)
    \/ \E s \in SockIds : \E d \in ScalePayloads : OnMessage(s, d)
    \/ \E l \in Listeners : Subscribe("mapConfig", l)
    \/ \E l \in Listeners : Unsubscribe("mapConfig", l)
    \/ \E nv \in EditRatios : SetMeterToPixel(nv)

SpecScale == InitScale /\ [][NextScale]_vars

(***************************************************************************)
(* Properties of the connection manager.                                   *)
(***************************************************************************)

\* C1: at every moment at most one transport connection is live (opening
\* or open), whatever the interleaving of start(), open/close events and
\* reconnect timers.
C1_AtMostOneLiveConnection == Cardinality(LiveSocks) <= 1

\* C2: a start() call made while some connection is opening or open opens
\* no other connection.
C2_StartWhileLiveOpensNothing ==
    [][(startsLeft' = startsLeft - 1 /\ LiveSocks # {}) => socks' = socks]_vars

\* C3: at most one reconnect timer is pending at any time.
C3_AtMostOneReconnectTimer == Cardinality(timers) <= 1

\* C4: once started, the manager never rests with the handle dropped and
\* no reconnect pending: whenever the handle is null the timer of
\* this.reconnectTimer is pending with the fixed delay, and a new
\* connection attempt follows.
Resting == boundOnce /\ ws = 0

C4_CloseLeadsToReconnect ==
    /\ [](Resting => \E t \in timers :
                        t.id = reconnectTimer /\ t.delay = ReconnectDelayMs)
    /\ (Resting ~> (ws # 0 /\ socks[ws] = "CONNECTING"))

\* a connection was closed and the timer has reconnected
C4_Witness ==
    /\ ws # 0
    /\ timers = {}
    /\ \E s \in SockIds : socks[s] = "CLOSED"

\* C5: send() while not connected is a pure drop: the step changes nothing
\* of the connection state or the wire, and the frame is never transmitted
\* later.
C5_SendWhileDisconnectedIsDropped ==
    /\ [](\A i \in 1..Len(wire) : wire[i].id \notin dropped)
    /\ [][dropped' # dropped =>
            UNCHANGED <<ws, socks, reconnectTimer, timers, status, wire>>]_vars

\* a frame was dropped, the manager reconnected and a later frame went out
C5_Witness ==
    /\ SocketOpen
    /\ \E s \in SockIds : socks[s] = "CLOSED"
    /\ \E d \in dropped : \E i \in 1..Len(wire) : wire[i].id > d

(***************************************************************************)
(* Properties of the router and the stores.                                *)
(***************************************************************************)

\* C6: every parsed frame is offered to every store exactly once, in the
\* order map catalog, scale, locate results, anchors, telemetry, beacon
\* list, whether or not an earlier store claimed it, and the frame counts
\* as claimed exactly when some store returned true.
C6_EveryStoreOfferedOnceInOrder ==
    ev.op = "dispatch" =>
        /\ ev.order = <<"maps", "mapConfig", "locate", "anchors", "ble", "beaconList">>
        /\ (ev.handled <=> \E s \in Stores : ev.ret[s])

\* a frame claimed by the first store and again by the fifth
C6_Witness ==
    /\ ev.op = "dispatch"
    /\ ev.ret["maps"]
    /\ ev.ret["ble"]
    /\ maps = <<"m2">>
    /\ Len(ble.realTimeDataList) > 0

\* the snapshot a store hands out
Snapshot(s) ==
    CASE s = "maps" -> maps
      [] s = "mapConfig" -> meterToPixel
      [] s = "locate" -> results
      [] s = "anchors" -> anchors
      [] s = "ble" -> ble
      [] s = "beaconList" -> beacons

\* the command tags a store reads; the telemetry frame carries none
TagsOf(s) ==
    CASE s = "maps" -> {"MapList"}
      [] s = "mapConfig" -> {"MapScale"}
      [] s = "locate" -> {"RelayLocated"}
      [] s = "anchors" -> {"BeaconPositions"}
      [] s = "ble" -> {""}
      [] s = "beaconList" -> FullListTags \cup AddedTags \cup RemovedTags

\* the frame is an object whose tag store s does not read
TagUnrecognised(s, msg) == msg.json = "object" /\ msg.cmd \notin TagsOf(s)

\* the frame is none that store s recognises: the telemetry store
\* recognises a raw record with a string id whatever the tag, the other
\* stores recognise their tags
Unrecognised(s, msg) ==
    IF s = "ble"
    THEN ~(msg.json = "object" /\ msg.rawT = "object" /\ msg.rawMac.t = "string")
    ELSE msg.json # "object" \/ msg.cmd \notin TagsOf(s)

\* store s answered false and did nothing in the step
NoEffect(s) ==
    /\ ~ev'.ret[s]
    /\ Snapshot(s)' = Snapshot(s)
    /\ ev'.calls[s] = 0
    /\ ev'.sent[s] = 0
    /\ wire' = wire

\* C7 as stated: for every store and every frame whose command tag the
\* store does not recognise, consume returns false, leaves the state
\* unchanged, notifies no listener and emits no outbound command.
C7_UnrecognisedTagNoEffect ==
    [][\A s \in Stores :
          (ev'.op = "dispatch" /\ TagUnrecognised(s, ev'.frame)) => NoEffect(s)]_vars

\* C7 amended: for every store and every frame the store does not
\* recognise (by command tag, or for the telemetry store by a raw record
\* with a string id, whatever the tag), consume returns false, leaves the
\* state unchanged, notifies no listener and emits no outbound command.
C7_UnrecognisedFrameNoEffect ==
    [][\A s \in Stores :
          (ev'.op = "dispatch" /\ Unrecognised(s, ev'.frame)) => NoEffect(s)]_vars

\* a frame no store recognises went through the stores while the scale
\* store held a subscribed listener and a value set by an earlier frame
C7_Witness ==
    /\ ev.op = "dispatch"
    /\ \A s \in Stores : Unrecognised(s, ev.frame)
    /\ ev.frame.cmd = "Foo"
    /\ ~ev.handled
    /\ lis["mapConfig"] # {}
    /\ meterToPixel # DefaultMeterToPixel

\* C8: for every store, subscribe(listener) invokes the listener exactly
\* once with the current snapshot before it returns.
C8_SubscribeReplaysOnce == ev.op = "subscribe" => ev.replay = 1

\* C9: every mutation of a store's state installs a new snapshot object, so
\* that a snapshot handed out earlier is never modified.
C9_MutationInstallsNewSnapshot ==
    [][\A s \in Stores : Snapshot(s)' # Snapshot(s) => ev'.fresh[s]]_vars

\* C10: applying a scale update that came from the server never emits an
\* outbound set-scale command, whatever the local value is.
C10_RemoteScaleNeverResent ==
    [][(ev'.op = "dispatch" /\ ev'.frame.cmd = "MapScale") =>
          /\ ev'.sent["mapConfig"] = 0
          /\ UNCHANGED <<wire, dropped, sendSeq>>]_vars

\* the server's echo of a local edit that went out was applied and changed
\* the value, a different value having arrived in between
C10_Witness ==
    /\ ev.op = "dispatch"
    /\ ev.ret["mapConfig"]
    /\ ev.calls["mapConfig"] > 0
    /\ SocketOpen
    /\ sendFn
    /\ \E i \in 1..Len(wire) :
          /\ wire[i].msg.cmd = "SetMapScale"
          /\ ev.frame.mtp = Num(wire[i].msg.v)
          /\ meterToPixel = wire[i].msg.v

(***************************************************************************)
(* Properties of the scale store.                                          *)
(***************************************************************************)
\* the ratio given to the edit is finite and positive
ValidRatio(nv) == nv.t = "number" /\ nv.v > 0

\* C11 as stated: every local scale edit with a valid ratio stores that
\* ratio and emits an outbound set-scale command carrying it.
C11_ValidEditStoresAndSends ==
    (ev.op = "setMeterToPixel" /\ ValidRatio(ev.arg)) =>
        /\ meterToPixel = ev.arg.v
        /\ ev.out = <<[cmd |-> "SetMapScale", v |-> ev.arg.v]>>

\* C11 amended: a local scale edit with a valid ratio stores the ratio
\* rounded to two decimals; when the rounded ratio differs from the stored
\* one and start() has bound the sender it hands exactly one set-scale
\* command carrying the rounded ratio to the transport, otherwise none.
C11_ValidEditStoresRoundedAndSendsOnChange ==
    [][(ev'.op = "setMeterToPixel" /\ ValidRatio(ev'.arg)) =>
          /\ meterToPixel' = Round2(ev'.arg.v)
          /\ ev'.out = IF meterToPixel # Round2(ev'.arg.v) /\ sendFn
                       THEN <<[cmd |-> "SetMapScale", v |-> Round2(ev'.arg.v)]>>
                       ELSE <<>>]_vars

\* an edit to 123.46 after start() stored 123.46 and put the command on the
\* open connection
C11_Witness ==
    /\ ev.op = "setMeterToPixel"
    /\ ev.arg = Num(12346)
    /\ SocketOpen
    /\ meterToPixel = 12350
    /\ Len(wire) > 0
    /\ wire[Len(wire)].msg = [cmd |-> "SetMapScale", v |-> 12350]

\* C12: the stored pixels-per-meter ratio is always finite and positive; a
\* local edit or an inbound scale frame whose ratio is non-finite, zero or
\* negative leaves the stored ratio unchanged and emits nothing.
C12_StoredRatioFinitePositive ==
    /\ [](meterToPixel > 0)
    /\ [][((ev'.op = "setMeterToPixel" /\ ~ValidRatio(ev'.arg))
            \/ (ev'.op = "dispatch" /\ ev'.frame.cmd = "MapScale"
                  /\ ~ValidRatio(ev'.frame.mtp))) =>
              /\ meterToPixel' = meterToPixel
              /\ ev'.out = <<>>
              /\ UNCHANGED <<wire, dropped, sendSeq>>]_vars

\* C13: the scale is keyed by map id: a scale update (a local edit on the
\* selected map, or an inbound frame naming a map) changes the ratio of
\* that one map and leaves the ratio of every other map unchanged.
C13_ScaleKeyedByMap ==
    [][((ev'.op = "dispatch" /\ ev'.frame.cmd = "MapScale" /\ ev'.frame.mapId # "")
          \/ ev'.op = "setMeterToPixel") =>
          \E m \in MapIds :
              /\ ev'.op = "dispatch" => ev'.frame.mapId = m
              /\ \A k \in MapIds \ {m} : ScaleOf(k)' = ScaleOf(k)]_vars

(***************************************************************************)
(* BeaconPositionService (per-map): setCurrentMap, getCurrentAnchors,      *)
(* setCoord, clearCoord                                                    *)
(***************************************************************************)
\* state.anchorsByMap[m] || {}
AnchorsOf(m) ==
    IF m \in DOMAIN anchors.anchorsByMap THEN anchors.anchorsByMap[m] ELSE <<>>

\* { ...state.anchorsByMap, [mapId]: next }
WithMap(mapId, next) ==
    [k \in DOMAIN anchors.anchorsByMap \cup {mapId} |->
        IF k = mapId THEN next ELSE anchors.anchorsByMap[k]]

\* a setCoord that starts from an empty object
setCoordNextAlone(cur, mac, x, y) ==
    [k \in {mac} |-> [mac |-> mac, x |-> x, y |-> y]]

\* next = { ...cur }; next[mac] = { mac, x, y }
setCoordNext(cur, mac, x, y) ==
    [k \in DOMAIN cur \cup {mac} |->
        IF k = mac THEN [mac |-> mac, x |-> x, y |-> y] ELSE cur[k]]

\* a clearCoord that empties the map
clearCoordNextAll(cur, mac) == <<>>

\* next = { ...cur }; delete next[mac]
clearCoordNext(cur, mac) == [k \in DOMAIN cur \ {mac} |-> cur[k]]

\* an edit that is kept only when the socket is open
InstallEditIfOpen(mapId, next) ==
    IF SocketOpen
    THEN [anchors EXCEPT !.anchorsByMap = WithMap(mapId, next)]
    ELSE anchors

\* this.setState({ anchorsByMap: { ...state.anchorsByMap, [mapId]: next } })
InstallEdit(mapId, next) ==
    [anchors EXCEPT !.anchorsByMap = WithMap(mapId, next)]

Coords == {<<1000, 2000>>, <<3000, 4000>>}
AnchorMacs == {MacA, MacB, <<>>}

AnchorEv(name, mapId, mac, xy, applies, out) ==
    [NoEv EXCEPT !.op = name, !.store = "anchors", !.map = mapId,
                 !.mac = mac, !.xy = xy, !.out = out,
                 !.threw = (mac # <<>> /\ mapId = ""),
                 !.fresh = [NoEv.fresh EXCEPT !["anchors"] = applies],
                 !.calls = [NoEv.calls EXCEPT !["anchors"] =
                              IF applies THEN Cardinality(lis["anchors"]) ELSE 0],
                 !.sent = [NoEv.sent EXCEPT !["anchors"] = Len(out)]]

\* what one call setCurrentMap(m) does to the store
CallSetCurrentMap(m) ==
    /\ anchors' = [currentMapId |-> m, anchorsByMap |-> WithMap(m, AnchorsOf(m))]
    /\ ev' = [NoEv EXCEPT !.op = "setCurrentMap", !.store = "anchors", !.map = m,
                          !.fresh = [NoEv.fresh EXCEPT !["anchors"] = TRUE],
                          !.calls = [NoEv.calls EXCEPT !["anchors"] =
                                       Cardinality(lis["anchors"])]]

SetCurrentMap(m) ==
    /\ CallSetCurrentMap(m)
    /\ UNCHANGED <<wsVars, sendFn, ui, maps, meterToPixel, results, ble, rowSeq,
                   beacons, lis, decoding, framesLeft, editsLeft, subsLeft>>

\* an edit of the current map: requireMapId() throws without one
CallAnchorEdit(name, cmd, mac, xy, next) ==
    LET mapId == anchors.currentMapId
        applies == mac # <<>> /\ mapId # ""
        out == IF applies
               THEN <<[cmd |-> cmd,
                       v |-> [mapId |-> mapId, mac |-> mac, xy |-> xy]]>>
               ELSE <<>>
    IN  /\ anchors' = IF applies THEN InstallEdit(mapId, next) ELSE anchors
        /\ IF applies THEN DoSend(out[1]) ELSE UNCHANGED <<wire, dropped, sendSeq>>
        /\ ev' = AnchorEv(name, mapId, mac, xy, applies, out)

AnchorEdit(name, cmd, mac, xy, next) ==
        /\ editsLeft > 0
        /\ editsLeft' = editsLeft - 1
        /\ CallAnchorEdit(name, cmd, mac, xy, next)
        /\ UNCHANGED <<ws, socks, reconnectTimer, timers, timerSeq, boundOnce,
                       status, startsLeft, closesLeft, sendsLeft>>
        /\ UNCHANGED <<sendFn, ui, maps, meterToPixel, results, ble, rowSeq, beacons,
                       lis, decoding, framesLeft, subsLeft>>

\* what one call setCoord(mac, x, y) does to the store and the transport
CallSetCoord(mac, x, y) ==
    CallAnchorEdit("setCoord", "SetBeaconPosition", mac, <<x, y>>,
                   setCoordNext(AnchorsOf(anchors.currentMapId), mac, x, y))

SetCoord(mac, x, y) ==
    AnchorEdit("setCoord", "SetBeaconPosition", mac, <<x, y>>,
               setCoordNext(AnchorsOf(anchors.currentMapId), mac, x, y))

ClearCoord(mac) ==
    AnchorEdit("clearCoord", "ClearCurrentBeaconPosition", mac, <<0, 0>>,
               clearCoordNext(AnchorsOf(anchors.currentMapId), mac))

AnchorPayloads ==
    [kind : {"text"}, ok : {TRUE},
     msg : {FPositions("m1", Arr(<<Item(MacA, 5000, 6000), Item(MacB, 0, 0)>>)),
            FPositions("m1", Arr(<<Item(MacB, 7000, 8000), Item(<<>>, 5000, 5000)>>)),
            FPositions("m2", Arr(<<Item(MacA, 1000, 2000)>>)),
            FPositions("", Arr(<<Item(MacA, 1000, 2000)>>)),
            [BlankFrame EXCEPT !.cmd = "Foo"]}]

InitAnchors ==
    /\ WsInit
    /\ startsLeft = StoreStarts
    /\ closesLeft = 0
    /\ sendsLeft = 0
    /\ framesLeft = MaxAnchorFrames
    /\ editsLeft = MaxAnchorEdits
    /\ subsLeft = 0

NextAnchors ==
    \/ Start
    \/ \E s \in SockIds : OnOpen(s)
    \/ \E s \in SockIds : \E d \in AnchorPayloads : OnMessage(s, d)
    \/ \E m \in MapIds : SetCurrentMap(m)
    \/ \E mac \in AnchorMacs : \E c \in Coords : SetCoord(mac, c[1], c[2])
    \/ \E mac \in AnchorMacs : ClearCoord(mac)

SpecAnchors == InitAnchors /\ [][NextAnchors]_vars

(***************************************************************************)
(* BeaconPositionService (single anchor set): setCoord, clearCoord         *)
(***************************************************************************)
\* what a reader of map m's anchors gets from the service in use
AnchorSetOf(m) == IF IsFlat THEN anchors.anchors ELSE AnchorsOf(m)

FlatAnchorEdit(name, cmd, mac, xy, next) ==
    LET applies == mac # <<>>
        out == IF applies
               THEN <<[cmd |-> cmd, v |-> [mac |-> mac, xy |-> xy]]>>
               ELSE <<>>
    IN  /\ editsLeft > 0
        /\ editsLeft' = editsLeft - 1
        /\ anchors' = IF applies THEN [anchors |-> next] ELSE anchors
        /\ IF applies THEN DoSend(out[1]) ELSE UNCHANGED <<wire, dropped, sendSeq>>
        /\ ev' = [AnchorEv(name, "", mac, xy, applies, out) EXCEPT !.threw = FALSE]
        /\ UNCHANGED <<ws, socks, reconnectTimer, timers, timerSeq, boundOnce,
                       status, startsLeft, closesLeft, sendsLeft>>
        /\ UNCHANGED <<sendFn, ui, maps, meterToPixel, results, ble, rowSeq, beacons,
                       lis, decoding, framesLeft, subsLeft>>

FlatSetCoord(mac, x, y) ==
    FlatAnchorEdit("setCoord", "SetBeaconPosition", mac, <<x, y>>,
                   setCoordNext(anchors.anchors, mac, x, y))

FlatClearCoord(mac) ==
    FlatAnchorEdit("clearCoord", "ClearCurrentBeaconPosition", mac, <<0, 0>>,
                   clearCoordNext(anchors.anchors, mac))

InitAnchorsFlat ==
    /\ TransportInit
    /\ OtherStoresInit
    /\ anchors = NoAnchorsFlat
    /\ startsLeft = StoreStarts
    /\ closesLeft = 0
    /\ sendsLeft = 0
    /\ framesLeft = MaxAnchorFrames
    /\ editsLeft = MaxAnchorEdits
    /\ subsLeft = 0

NextAnchorsFlat ==
    \/ Start
    \/ \E s \in SockIds : OnOpen(s)
    \/ \E s \in SockIds : \E d \in AnchorPayloads : OnMessage(s, d)
    \/ \E mac \in AnchorMacs : \E c \in Coords : FlatSetCoord(mac, c[1], c[2])
    \/ \E mac \in AnchorMacs : FlatClearCoord(mac)

SpecAnchorsFlat == InitAnchorsFlat /\ [][NextAnchorsFlat]_vars

(***************************************************************************)
(* Properties of the anchor store                                          *)
(***************************************************************************)
\* C14: after setCoord(mac, x, y) with a mac and a current map, that map holds
\* exactly {mac, x, y} under mac, its other anchors are unchanged and so are
\* the anchors of every other map.
C14_SetCoordStoresExactly ==
    [][\A m \in MapIds :
         (ev'.op = "setCoord" /\ ev'.mac # <<>> /\ anchors.currentMapId = m) =>
            /\ anchors'.currentMapId = m
            /\ DOMAIN AnchorsOf(m)' = DOMAIN AnchorsOf(m) \cup {ev'.mac}
            /\ AnchorsOf(m)'[ev'.mac] =
                 [mac |-> ev'.mac, x |-> ev'.xy[1], y |-> ev'.xy[2]]
            /\ \A k \in DOMAIN AnchorsOf(m) \ {ev'.mac} :
                 AnchorsOf(m)'[k] = AnchorsOf(m)[k]
            /\ \A o \in MapIds \ {m} : AnchorsOf(o)' = AnchorsOf(o)]_vars

C14_Witness ==
    /\ ev.op = "setCoord"
    /\ ev.fresh["anchors"]
    /\ Cardinality(DOMAIN AnchorsOf(ev.map)) > 1
    /\ \E o \in MapIds \ {ev.map} : AnchorsOf(o) # <<>>

\* C15: clearCoord(mac) with a mac and a current map removes exactly the
\* anchor under mac on the current map; the other anchors of that map and the
\* anchors of every other map are unchanged.
C15_ClearCoordRemovesOnlyThatAnchor ==
    [][\A m \in MapIds :
         (ev'.op = "clearCoord" /\ ev'.mac # <<>> /\ anchors.currentMapId = m) =>
            /\ anchors'.currentMapId = m
            /\ DOMAIN AnchorsOf(m)' = DOMAIN AnchorsOf(m) \ {ev'.mac}
            /\ \A k \in DOMAIN AnchorsOf(m) \ {ev'.mac} :
                 AnchorsOf(m)'[k] = AnchorsOf(m)[k]
            /\ \A o \in MapIds \ {m} : AnchorsOf(o)' = AnchorsOf(o)]_vars

\* a clearCoord that removed one of two anchors while the other map holds the
\* same mac
C15_Witness ==
    /\ ev.op = "clearCoord"
    /\ ev.fresh["anchors"]
    /\ ev.mac \notin DOMAIN AnchorsOf(ev.map)
    /\ AnchorsOf(ev.map) # <<>>
    /\ \E o \in MapIds \ {ev.map} : ev.mac \in DOMAIN AnchorsOf(o)

\* items of a full-list frame that carry a mac, the last one per mac
FrameAnchors(msg) == ItemsToAnchors(msg.items.v)

IsFullListFor(msg, m) ==
    /\ msg.json = "object"
    /\ msg.cmd = "BeaconPositions"
    /\ msg.mapId = m
    /\ msg.items.t = "array"

\* C16: after an inbound anchor full-list frame for map m, the anchors read
\* for m are exactly the frame's items (an anchor absent from the frame is
\* gone) and the anchors of the other maps are unchanged.
C16_FullListReplacesMapAnchors ==
    [][\A m \in MapIds :
         (ev'.op = "dispatch" /\ IsFullListFor(ev'.frame, m)) =>
            /\ AnchorSetOf(m)' = FrameAnchors(ev'.frame)
            /\ \A o \in MapIds \ {m} : AnchorSetOf(o)' = AnchorSetOf(o)]_vars

\* C17: setCoord or clearCoord called with a mac and a current map while the
\* socket is not open is applied to the store, returns without an error and
\* its message is dropped; no later step that is not itself a store operation
\* (connecting, opening) changes the anchors, so nothing rolls the edit back.
C17_OfflineEditIsKept ==
    [][/\ \A m \in MapIds :
            ( /\ ev'.op \in {"setCoord", "clearCoord"}
              /\ ev'.mac # <<>>
              /\ anchors.currentMapId = m
              /\ ~SocketOpen ) =>
                /\ ~ev'.threw
                /\ IF ev'.op = "setCoord"
                   THEN /\ ev'.mac \in DOMAIN AnchorsOf(m)'
                        /\ AnchorsOf(m)'[ev'.mac] =
                             [mac |-> ev'.mac, x |-> ev'.xy[1], y |-> ev'.xy[2]]
                   ELSE ev'.mac \notin DOMAIN AnchorsOf(m)'
                /\ dropped' = dropped \cup {sendSeq'}
                /\ wire' = wire
       /\ (ev'.op = NoEv.op) => (anchors' = anchors)]_vars

\* an anchor set while nothing was connected, still stored once the socket
\* is open
C17_Witness ==
    /\ SocketOpen
    /\ wire = <<>>
    /\ dropped # {}
    /\ framesLeft = MaxAnchorFrames
    /\ \E m \in MapIds : AnchorsOf(m) # <<>>

\* C18: whichever of a local setCoord and an inbound full list is applied
\* last to an anchor key (map id, mac) determines the stored value, whatever
\* was stored before; and every map holds one record per mac, filed under
\* its own mac.
C18_LastAppliedWins ==
    [][\A m \in MapIds :
         /\ (ev'.op = "setCoord" /\ ev'.mac # <<>> /\ anchors.currentMapId = m) =>
               AnchorsOf(m)'[ev'.mac] =
                  [mac |-> ev'.mac, x |-> ev'.xy[1], y |-> ev'.xy[2]]
         /\ (ev'.op = "dispatch" /\ IsFullListFor(ev'.frame, m)) =>
               \A k \in DOMAIN FrameAnchors(ev'.frame) :
                  AnchorsOf(m)'[k] = FrameAnchors(ev'.frame)[k]
         /\ \A k \in DOMAIN AnchorsOf(m)' : AnchorsOf(m)'[k].mac = k]_vars

\* a full list that arrived after a local setCoord of the same key had been
\* sent with another value
C18_Witness ==
    /\ ev.op = "dispatch"
    /\ \E m \in MapIds :
         /\ IsFullListFor(ev.frame, m)
         /\ \E i \in 1..Len(wire) :
              /\ wire[i].msg.cmd = "SetBeaconPosition"
              /\ wire[i].msg.v.mapId = m
              /\ wire[i].msg.v.mac \in DOMAIN AnchorsOf(m)
              /\ wire[i].msg.v.mac \in DOMAIN FrameAnchors(ev.frame)
              /\ AnchorsOf(m)[wire[i].msg.v.mac].x # wire[i].msg.v.xy[1]

(***************************************************************************)
(* LocateResultService under locate observations                           *)
(***************************************************************************)
OnMap(frame, m) == [frame EXCEPT !.mapId = m]

LocatePayloads ==
    [kind : {"text"}, ok : {TRUE},
     msg : {OnMap(FLocated(Str(MacA), Num(1000), Num(2000)), "m1"),
            OnMap(FLocated(Str(MacA), Num(3000), Num(4000)), "m2"),
            OnMap(FLocated(Str(MacA), [t |-> "nan", v |-> 0], Num(5000)), "m1"),
            OnMap(FLocated(Str(MacB), Num(6000), Num(7000)), "m1"),
            OnMap(FLocated(Str(<<>>), Num(1000), Num(2000)), "m1"),
            [BlankFrame EXCEPT !.cmd = "Foo"]}]

InitLocate ==
    /\ WsInit
    /\ startsLeft = StoreStarts
    /\ closesLeft = 0
    /\ sendsLeft = 0
    /\ framesLeft = MaxLocFrames
    /\ editsLeft = 0
    /\ subsLeft = MaxSubs

NextLocate ==
    \/ Start
    \/ \E s \in SockIds : OnOpen(s)
    \/ \E s \in SockIds : \E d \in LocatePayloads : OnMessage(s, d)
    \/ \E l \in Listeners : Subscribe("locate", l)
    \/ \E l \in Listeners : Unsubscribe("locate", l)

SpecLocate == InitLocate /\ [][NextLocate]_vars

\* the record a view of map m shows for target t: Object.values(results)
NoRecord == [mac |-> <<>>, x |-> 0, y |-> 0]
LocateOf(m, t) == IF t \in DOMAIN results THEN results[t] ELSE NoRecord

IsObservation(msg) ==
    /\ msg.json = "object"
    /\ msg.cmd = "RelayLocated"
    /\ msg.target.t = "string"
    /\ msg.target.v # <<>>

\* C19: after an observation of target t on map m the record of (m, t) is
\* that observation, and the record of every other (map id, target id) is
\* what it was.
C19_OneRecordPerMapAndTarget ==
    [][(ev'.op = "dispatch" /\ IsObservation(ev'.frame)) =>
         \A m \in MapIds : \A t \in {MacA, MacB} :
            IF m = ev'.frame.mapId /\ t = ev'.frame.target.v
            THEN LocateOf(m, t)' =
                    [mac |-> t, x |-> FiniteOrZero(ev'.frame.x),
                     y |-> FiniteOrZero(ev'.frame.y)]
            ELSE LocateOf(m, t)' = LocateOf(m, t)]_vars

(***************************************************************************)
(* BluetoothDataService at capacity: pushRow, clearRealTimeDataList        *)
(***************************************************************************)
\* the store after n telemetry frames of MacA since construction
AfterRows(n) ==
    [realTimeDataList |-> [i \in 1..n |-> [key |-> n + 1 - i, mac |-> MacA]],
     macList |-> IF n = 0 THEN <<>> ELSE <<MacA>>]

ClearRealTimeDataList ==
    /\ editsLeft > 0
    /\ editsLeft' = editsLeft - 1
    /\ ble' = NoRows
    /\ ev' = [NoEv EXCEPT !.op = "clearRealTimeDataList", !.store = "ble",
                          !.fresh = [NoEv.fresh EXCEPT !["ble"] = TRUE],
                          !.calls = [NoEv.calls EXCEPT !["ble"] =
                                       Cardinality(lis["ble"])]]
    /\ UNCHANGED <<wsVars, sendFn, ui, maps, meterToPixel, results, anchors, rowSeq,
                   beacons, lis, decoding, framesLeft, subsLeft>>

RowPayloads ==
    [kind : {"text"}, ok : {TRUE},
     msg : {FRaw("BleData", Str(MacA)), FRaw("", Str(MacB)),
            [BlankFrame EXCEPT !.cmd = "Foo"]}]

InitRows ==
    /\ TransportInit
    /\ QuietStoresInit
    /\ anchors = NoAnchors
    /\ \E n \in {0, HeldRows} : ble = AfterRows(n) /\ rowSeq = n + 1
    /\ startsLeft = StoreStarts
    /\ closesLeft = 0
    /\ sendsLeft = 0
    /\ framesLeft = MaxRowFrames
    /\ editsLeft = MaxEdits
    /\ subsLeft = 0

NextRows ==
    \/ Start
    \/ \E s \in SockIds : OnOpen(s)
    \/ \E s \in SockIds : \E d \in RowPayloads : OnMessage(s, d)
    \/ ClearRealTimeDataList

SpecRows == InitRows /\ [][NextRows]_vars

(***************************************************************************)
(* Properties of the telemetry store                                       *)
(***************************************************************************)
RowsWellFormed ==
    LET rows == ble.realTimeDataList
        macs == ble.macList
    IN  /\ Len(rows) <= RowCap
        /\ \A i \in 1..Len(rows) - 1 : rows[i].key > rows[i + 1].key
        /\ \A i, j \in 1..Len(macs) : macs[i] = macs[j] => i = j
        /\ \A i \in 1..Len(rows) : rows[i].mac \in Range(macs)

\* C20: the row list holds at most 200 rows, newest first; a row arriving at
\* capacity goes to the head and exactly the oldest (last) row is evicted;
\* the mac list has no duplicates and holds the mac of every row held.
C20_RowListBoundedNewestFirst ==
    /\ RowsWellFormed
    /\ [][/\ RowsWellFormed'
          /\ (ev'.op = "dispatch" /\ ev'.ret["ble"]) =>
                /\ ble'.realTimeDataList[1].key = rowSeq
                /\ ble'.realTimeDataList[1].mac = ev'.frame.rawMac.v
                /\ IF Len(ble.realTimeDataList) = RowCap
                   THEN ble'.realTimeDataList =
                           <<ble'.realTimeDataList[1]>> \o
                              SubSeq(ble.realTimeDataList, 1, RowCap - 1)
                   ELSE ble'.realTimeDataList =
                           <<ble'.realTimeDataList[1]>> \o ble.realTimeDataList]_vars

\* a row arrived while 200 rows were held
C20_Witness ==
    /\ ev.op = "dispatch"
    /\ ev.ret["ble"]
    /\ Len(ble.realTimeDataList) = RowCap
    /\ ble.realTimeDataList[RowCap].key > 1
    /\ Len(ble.macList) > 1

(***************************************************************************)
(* BeaconListService: setMacList, addMac, removeBeacon                     *)
(***************************************************************************)
MacDash == <<"A","A","-","B","B","-","C","C","-","D","D","-","E","E","-","F","F">>
MacShortDash == <<"a","a","-","b","b">>
MacShortColon == <<"A","A",":","B","B">>

BeaconMacs == {MacLower, MacDash, MacOne, MacShortDash, <<>>}
BeaconLists == {<<MacLower, MacPlain>>, <<MacOne, <<>>, MacDash, MacShortColon>>}

BeaconEdit(name, mac, next, applies, out) ==
    /\ editsLeft > 0
    /\ editsLeft' = editsLeft - 1
    /\ beacons' = IF applies THEN next ELSE beacons
    /\ IF out # <<>> THEN DoSend(out[1]) ELSE UNCHANGED <<wire, dropped, sendSeq>>
    /\ ev' = [NoEv EXCEPT !.op = name, !.store = "beaconList", !.mac = mac,
                          !.out = out,
                          !.fresh = [NoEv.fresh EXCEPT !["beaconList"] = applies],
                          !.calls = [NoEv.calls EXCEPT !["beaconList"] =
                             IF applies THEN Cardinality(lis["beaconList"]) ELSE 0],
                          !.sent = [NoEv.sent EXCEPT !["beaconList"] = Len(out)]]
    /\ UNCHANGED <<ws, socks, reconnectTimer, timers, timerSeq, boundOnce,
                   status, startsLeft, closesLeft, sendsLeft>>
    /\ UNCHANGED <<sendFn, ui, maps, meterToPixel, results, anchors, ble, rowSeq,
                   lis, decoding, framesLeft, subsLeft>>

SetMacList(list) == BeaconEdit("setMacList", <<>>, dedupSort(list), TRUE, <<>>)

AddMac(mac) == BeaconEdit("addMac", mac, addMac(mac), TRUE, <<>>)

\* n = normalizeMac(mac); if (!n) return; send(..); removeMacLocal(n)
RemoveBeacon(mac) ==
    LET n == normalizeMac(mac)
    IN  BeaconEdit("removeBeacon", mac, removeMacLocal(n), n # <<>>,
                   IF n # <<>> THEN <<[cmd |-> "RemoveBeacon", v |-> n]>> ELSE <<>>)

BeaconPayloads ==
    [kind : {"text"}, ok : {TRUE},
     msg : {FMacList("MacList", Arr(<<MacLower, MacOne, MacPlain>>)),
            FMac("MacAdded", Str(MacShortDash)),
            FMac("BeaconAdded", Str(MacDash)),
            FMac("BeaconRemoved", Str(MacPlain)),
            FMac("MacRemoved", Str(MacOne)),
            [BlankFrame EXCEPT !.cmd = "Foo"]}]

InitBeacons ==
    /\ WsInit
    /\ startsLeft = StoreStarts
    /\ closesLeft = 0
    /\ sendsLeft = 0
    /\ framesLeft = MaxBeaconFrames
    /\ editsLeft = MaxBeaconEdits
    /\ subsLeft = 0

NextBeacons ==
    \/ Start
    \/ \E s \in SockIds : OnOpen(s)
    \/ \E s \in SockIds : \E d \in BeaconPayloads : OnMessage(s, d)
    \/ \E l \in BeaconLists : SetMacList(l)
    \/ \E mac \in BeaconMacs : AddMac(mac)
    \/ \E mac \in BeaconMacs : RemoveBeacon(mac)

SpecBeacons == InitBeacons /\ [][NextBeacons]_vars

(***************************************************************************)
(* Properties of the beacon identity list                                  *)
(***************************************************************************)
\* uppercase hex pairs joined by ":" (AA:BB:CC:DD:EE:FF)
Canonical(t) ==
    /\ Len(t) = MacHexLen + (MacHexLen \div 2) - 1
    /\ \A i \in 1..Len(t) :
          IF i % 3 = 0 THEN t[i] = ":"
          ELSE IsHexDigit(t[i]) /\ ToUpper(t[i]) = t[i]

\* a token without its separators and letter case
Folded(t) == UpperCase(SelectSeq(t, IsHexDigit))

\* C21: the beacon identity list has no duplicates, is sorted, holds only
\* canonical tokens, and no two of its tokens differ only in letter case or
\* separators.
C21_BeaconListCanonicalSortedDistinct ==
    /\ \A i, j \in 1..Len(beacons) : i < j => StrLess(beacons[i], beacons[j])
    /\ \A i \in 1..Len(beacons) : Canonical(beacons[i])
    /\ \A i, j \in 1..Len(beacons) :
          Folded(beacons[i]) = Folded(beacons[j]) => i = j

ImageSize == [iw |-> 80, ih |-> 60]
WrapSize == [cw |-> 60, ch |-> 30]

\* object-fit: contain; scale.sx = rw / iw and scale.sy = rh / ih are kept as
\* the pairs (rw, iw) and (rh, ih)
computeImageLayout(iw, ih, cw, ch) ==
    LET wider == iw * ch > cw * ih          \* imgRatio > wrapRatio
        rw == IF wider THEN cw ELSE (ch * iw) \div ih
        rh == IF wider THEN (cw * ih) \div iw ELSE ch
    IN  [rw |-> rw, rh |-> rh, left |-> (cw - rw) \div 2, top |-> (ch - rh) \div 2,
         iw |-> iw, ih |-> ih]

Abs(n) == IF n < 0 THEN -n ELSE n

\* |dx| + |dy| in thousandths, the distance along the axes
HypotAlongAxes(dx, dy) == 1000 * (Abs(dx) + Abs(dy))

\* Math.hypot(dx, dy) in thousandths; whole for the clicks of the run
Hypot(dx, dy) ==
    1000 * (CHOOSE r \in 0..(Abs(dx) + Abs(dy)) :
               r * r <= dx * dx + dy * dy /\ dx * dx + dy * dy < (r + 1) * (r + 1))

\* clicks in container coordinates: three inside the image (native (0,0),
\* (8,6), (40,30)), one on its far corner (80,60), one left of it; the
\* native points are whole pixels apart
Clicks == {<<10, 0>>, <<14, 3>>, <<30, 15>>, <<50, 30>>, <<5, 10>>}

\* metres typed into the dialog: 2, 5000, nothing (0), -1
MeterInputs == {2000, 5000000, 0, -1000}

InImg(l, rx, ry) ==
    /\ rx >= l.left
    /\ rx <= l.left + l.rw
    /\ ry >= l.top
    /\ ry <= l.top + l.rh

\* a click handler without the inImg test
handleMapClickAnywhere(u, rx, ry) ==
    LET l == u.layout
        p == [ix |-> ((rx - l.left) * l.iw) \div l.rw,
              iy |-> ((ry - l.top) * l.ih) \div l.rh]
        next == Append(u.calibPoints, p)
    IN  IF ~u.calibMode \/ l.rw <= 0 \/ l.rh <= 0 THEN u
        ELSE IF Len(u.calibPoints) >= 2 THEN u
        ELSE IF Len(next) = 2
        THEN [u EXCEPT !.calibPoints = next,
                       !.calibPixelDist = Hypot(next[2].ix - next[1].ix,
                                                next[2].iy - next[1].iy),
                       !.calibModalOpen = TRUE]
        ELSE [u EXCEPT !.calibPoints = next]

\* the component state after handleMapClick at container position (rx, ry)
handleMapClick(u, rx, ry) ==
    LET l == u.layout
        p == [ix |-> ((rx - l.left) * l.iw) \div l.rw,
              iy |-> ((ry - l.top) * l.ih) \div l.rh]
        next == Append(u.calibPoints, p)
    IN  IF ~u.calibMode \/ l.rw <= 0 \/ l.rh <= 0 THEN u
        ELSE IF ~InImg(l, rx, ry) THEN u
        ELSE IF Len(u.calibPoints) >= 2 THEN u
        ELSE IF Len(next) = 2
        THEN [u EXCEPT !.calibPoints = next,
                       !.calibPixelDist = Hypot(next[2].ix - next[1].ix,
                                                next[2].iy - next[1].iy),
                       !.calibModalOpen = TRUE]
        ELSE [u EXCEPT !.calibPoints = next]

\* the maps the points of u were picked on, u being the component state a
\* handler leaves: a point added now was picked on the selected map
PickedOn(u) ==
    IF Len(u.calibPoints) > Len(ui.calibPoints)
    THEN Append(ui.pickedOn, anchors.currentMapId)
    ELSE SubSeq(ui.pickedOn, 1, Len(u.calibPoints))

\* a step of the component that reaches no store
UiStep(op, u) ==
    /\ ui.mounted
    /\ ui' = [u EXCEPT !.op = op, !.pickedOn = PickedOn(u)]
    /\ ev' = NoEv
    /\ UNCHANGED <<wsVars, sendFn, storeState>>

\* the map the user selects
SelectedMap == "m1"

\* the effect on selectedMapId/mapList: beaconPositionService.setCurrentMap
\* and setmapScale(HTTP_BASE + map.url)
SelectMap ==
    /\ ui.mounted
    /\ ~ui.mapScale
    /\ ui' = [ui EXCEPT !.op = "selectMap", !.mapScale = TRUE]
    /\ CallSetCurrentMap(SelectedMap)
    /\ UNCHANGED <<wsVars, sendFn, maps, meterToPixel, results, ble, rowSeq,
                   beacons, lis, decoding, framesLeft, editsLeft, subsLeft>>

\* <img onLoad={computeImageLayout}>
ImageLoaded ==
    /\ ui.mapScale
    /\ ui.layout = NoLayout
    /\ UiStep("imageLoaded",
              [ui EXCEPT !.layout = computeImageLayout(ImageSize.iw, ImageSize.ih,
                                                       WrapSize.cw, WrapSize.ch)])

(***************************************************************************)
(* MapsManager: dragging an anchor (dragRef, requestAnimationFrame)        *)
(***************************************************************************)
\* Math.round(num / den) for num >= 0, den > 0
RoundDiv(num, den) == (2 * num + den) \div (2 * den)

\* clientToMeters under the layout and scale the listener closed over: <<>>
\* for null, else <<x, y>> in thousandths of a metre, rounded to 2 decimals.
\* mx = (rx - left) / (sx * meterToPixel) with sx = rw / iw.
clientToMeters(env, px, py) ==
    LET l == env.layout
        rx == IF px < l.left THEN l.left
              ELSE IF px > l.left + l.rw THEN l.left + l.rw ELSE px
        ry == IF py < l.top THEN l.top
              ELSE IF py > l.top + l.rh THEN l.top + l.rh ELSE py
    IN  IF l.rw <= 0 \/ l.rh <= 0 \/ env.meterToPixel <= 0 THEN <<>>
        ELSE <<10 * RoundDiv((rx - l.left) * l.iw * 100000, l.rw * env.meterToPixel),
               10 * RoundDiv((l.rh - (ry - l.top)) * l.ih * 100000,
                             l.rh * env.meterToPixel)>>

\* a flushDragSend that sends whatever is pending
flushDragSendAll(u) ==
    LET u1 == [u EXCEPT !.dragRaf = 0]
    IN  IF u.dragMac = <<>> \/ u.dragPending = <<>>
        THEN [u |-> u1, commit |-> <<>>]
        ELSE [u |-> [u1 EXCEPT !.dragLastSent = u.dragPending],
              commit |-> <<u.dragMac, u.dragPending>>]

\* flushDragSend: commit is <<>> or <<mac, xy>>, the setCoord call it makes
flushDragSend(u) ==
    LET u1 == [u EXCEPT !.dragRaf = 0]
    IN  IF u.dragMac = <<>> \/ u.dragPending = <<>>
        THEN [u |-> u1, commit |-> <<>>]
        ELSE IF u.dragLastSent # <<>> /\ u.dragLastSent = u.dragPending
        THEN [u |-> u1, commit |-> <<>>]
        ELSE [u |-> [u1 EXCEPT !.dragLastSent = u.dragPending],
              commit |-> <<u.dragMac, u.dragPending>>]

\* the handle requestAnimationFrame returns: one no queued callback has
NewFrameId(u) ==
    CHOOSE i \in 1..(Len(u.frames) + 1) :
        /\ \A k \in 1..Len(u.frames) : u.frames[k] # i
        /\ \A j \in 1..(i - 1) : \E k \in 1..Len(u.frames) : u.frames[k] = j

\* a scheduleDragSend that requests a callback on every move
scheduleDragSendEvery(u, mac, xy) ==
    [u EXCEPT !.dragMac = mac, !.dragPending = xy,
              !.dragRaf = NewFrameId(u),
              !.frames = Append(u.frames, NewFrameId(u))]

scheduleDragSend(u, mac, xy) ==
    LET u1 == [u EXCEPT !.dragMac = mac, !.dragPending = xy]
    IN  IF u.dragRaf # 0 THEN u1
        ELSE [u1 EXCEPT !.dragRaf = NewFrameId(u),
                        !.frames = Append(u.frames, NewFrameId(u))]

\* cancelAnimationFrame(id)
Without(q, id) == SelectSeq(q, LAMBDA f : f # id)

endDrag(u) ==
    [u EXCEPT !.frames = IF u.dragRaf # 0 THEN Without(u.frames, u.dragRaf)
                         ELSE u.frames,
              !.dragRaf = 0, !.dragPending = <<>>, !.dragLastSent = <<>>,
              !.dragMac = <<>>]

\* the button is disabled without mapScale and lies under the dialog's mask
StartCalibrate ==
    /\ ui.mapScale
    /\ ~ui.calibModalOpen
    /\ ui.running = <<>>
    /\ UiStep("startCalibrate",
              [endDrag(ui) EXCEPT !.calibMode = TRUE, !.calibPoints = <<>>,
                         !.calibModalOpen = FALSE, !.calibMeters = 1000,
                         !.calibPixelDist = 0])

\* a cancelCalibrate that keeps the session's values
cancelCalibrateKeep(u) == [u EXCEPT !.calibMode = FALSE, !.calibModalOpen = FALSE]

cancelCalibrate(u) ==
    [u EXCEPT !.calibMode = FALSE, !.calibPoints = <<>>, !.calibModalOpen = FALSE,
              !.calibMeters = 1000, !.calibPixelDist = 0]

\* the card's "exit" button (shown in calibMode) or the dialog's onCancel
CancelCalibrate ==
    /\ ui.calibMode
    /\ UiStep("cancelCalibrate", cancelCalibrate(ui))

\* the card's "pick again" button: setCalibPoints([]); under the mask while
\* the dialog is open
Repick ==
    /\ ui.calibMode
    /\ ~ui.calibModalOpen
    /\ UiStep("repick", [ui EXCEPT !.calibPoints = <<>>])

\* a pointer click on the map container; the dialog's mask takes the clicks
\* while it is open
MapClick(c) ==
    /\ ~ui.calibModalOpen
    /\ UiStep("click", [handleMapClick(ui, c[1], c[2]) EXCEPT !.click = c])

\* InputNumber onChange: setCalibMeters(Number(v ?? 0))
SetCalibMeters(m) ==
    /\ ui.calibModalOpen
    /\ UiStep("setCalibMeters", [ui EXCEPT !.calibMeters = m])

\* calibMeters / calibPixelDist, the ratio upside down
CalibRatioInverse(u) == (u.calibMeters * 1000) \div u.calibPixelDist

\* calibPixelDist / calibMeters, in thousandths
CalibRatio(u) == (u.calibPixelDist * 1000) \div u.calibMeters

\* a confirmCalibrate that only wants a distance entered
ConfirmAcceptsAnyMeters(u) ==
    /\ Len(u.calibPoints) = 2
    /\ u.calibMeters # 0
    /\ u.calibPixelDist > 0

\* confirmCalibrate passes its three tests
ConfirmAccepts(u) ==
    /\ Len(u.calibPoints) = 2
    /\ u.calibMeters > 0
    /\ u.calibPixelDist > 0

\* commitMeterToPixel calls the store: fixed is finite and positive
CommitCalls(v) == Round2(v) > 0

\* the dialog's onOk
ConfirmCalibrate ==
    /\ ui.mounted
    /\ ui.calibModalOpen
    /\ IF ~ConfirmAccepts(ui)
       THEN /\ UiStep("confirmCalibrate", ui)
       ELSE /\ ui' = [ui EXCEPT !.op = "confirmCalibrate", !.calibModalOpen = FALSE,
                                !.calibMode = FALSE, !.calibPoints = <<>>,
                                !.pickedOn = <<>>]
            /\ IF CommitCalls(CalibRatio(ui))
               THEN /\ editsLeft > 0
                    /\ editsLeft' = editsLeft - 1
                    /\ CallSetMeterToPixel(Num(Round2(CalibRatio(ui))))
               ELSE /\ ev' = NoEv
                    /\ UNCHANGED <<meterToPixel, wire, dropped, sendSeq, editsLeft>>
            /\ UNCHANGED <<ws, socks, reconnectTimer, timers, timerSeq, boundOnce,
                           status, startsLeft, closesLeft, sendsLeft>>
            /\ UNCHANGED <<sendFn, maps, results, anchors, ble, rowSeq, beacons,
                           lis, decoding, framesLeft, subsLeft>>

InitCalib ==
    /\ WsInit
    /\ startsLeft = StoreStarts
    /\ closesLeft = 0
    /\ sendsLeft = 0
    /\ framesLeft = 0
    /\ editsLeft = MaxCalCommits
    /\ subsLeft = 0

NextCalib ==
    \/ Start
    \/ \E s \in SockIds : OnOpen(s)
    \/ SelectMap
    \/ ImageLoaded
    \/ StartCalibrate
    \/ CancelCalibrate
    \/ Repick
    \/ \E c \in Clicks : MapClick(c)
    \/ \E m \in MeterInputs : SetCalibMeters(m)
    \/ ConfirmCalibrate

SpecCalib == InitCalib /\ [][NextCalib]_vars

(***************************************************************************)
(* MapsManager: another map is chosen in the Select while one is shown.    *)
(***************************************************************************)
\* <Select onChange={setSelectedMapId}> and the effect on selectedMapId:
\* beaconPositionService.setCurrentMap(selectedMapId), setmapScale(url of the
\* map); the calibration state is not touched.  The dialog's mask keeps
\* the Select out of reach while it is open.
SwitchMap(m) ==
    /\ ui.mounted
    /\ ui.mapScale
    /\ ~ui.calibModalOpen
    /\ m # anchors.currentMapId
    /\ ui' = [ui EXCEPT !.op = "switchMap"]
    /\ CallSetCurrentMap(m)
    /\ UNCHANGED <<wsVars, sendFn, maps, meterToPixel, results, ble, rowSeq,
                   beacons, lis, decoding, framesLeft, editsLeft, subsLeft>>

SwitchClicks == {<<14, 3>>, <<50, 30>>}

SwitchMeters == {2000}

NextSwitch ==
    \/ Start
    \/ \E s \in SockIds : OnOpen(s)
    \/ SelectMap
    \/ \E m \in MapIds : SwitchMap(m)
    \/ ImageLoaded
    \/ StartCalibrate
    \/ CancelCalibrate
    \/ \E c \in SwitchClicks : MapClick(c)
    \/ \E m \in SwitchMeters : SetCalibMeters(m)
    \/ ConfirmCalibrate

SpecSwitch == InitCalib /\ [][NextSwitch]_vars

(***************************************************************************)
(* MapsManager: the drag's handlers.  The callbacks of one animation frame *)
(* run back to back, so no input handler runs while ui.running holds one.  *)
(***************************************************************************)
MaxDragEvents == 5
MaxDragFrames == 1

\* pointer positions in the container: two that convert to the same
\* coordinates and one outside the rendered image
DragPoints == {<<11, 30>>, <<12, 30>>, <<70, 40>>}

\* what the user types into the scale box
ScaleInputs == {0}

\* the click point of a calibration between drags
DragClicks == {<<14, 3>>}

\* the dots rendered: anchorList is anchorsByMap[selectedMapId]
Rendered == IF ui.mapScale THEN DOMAIN AnchorsOf(SelectedMap) ELSE {}

\* the step of a handler that made the setCoord call commit, or none
DragStep(u, commit) ==
    /\ ui' = [u EXCEPT !.dragCommits = IF commit = <<>> THEN u.dragCommits
                                        ELSE Append(u.dragCommits, commit[2])]
    /\ IF commit # <<>>
       THEN CallSetCoord(commit[1], commit[2][1], commit[2][2])
       ELSE /\ ev' = NoEv
            /\ UNCHANGED <<anchors, wire, dropped, sendSeq>>
    /\ UNCHANGED <<ws, socks, reconnectTimer, timers, timerSeq, boundOnce,
                   status, startsLeft, closesLeft, sendsLeft>>
    /\ UNCHANGED <<sendFn, maps, meterToPixel, results, ble, rowSeq, beacons,
                   lis, decoding, framesLeft, subsLeft>>

\* one pointer event of the user
PointerEvent ==
    /\ ui.running = <<>>
    /\ editsLeft > 0
    /\ editsLeft' = editsLeft - 1

\* Input onChange: setMeterToPixel(Number(e.target.value)), local only
TypeScale(v) ==
    /\ ui.running = <<>>
    /\ ~ui.calibModalOpen
    /\ ui.meterToPixel # v
    /\ UiStep("typeScale", [ui EXCEPT !.meterToPixel = v])

\* a startDrag without its first test
StartDragAnyMode(mac) ==
    /\ PointerEvent
    /\ ui.mounted
    /\ mac \in Rendered
    /\ DragStep([ui EXCEPT !.op = "startDrag", !.dragMac = mac,
                           !.dragPending = <<>>, !.dragLastSent = <<>>,
                           !.listeners = Append(ui.listeners,
                                                [layout |-> ui.layout,
                                                 meterToPixel |-> ui.meterToPixel]),
                           !.dragCommits = <<>>, !.release = <<>>],
                <<>>)

\* onPointerDown of a dot; the listeners it registers on the window are
\* this render's onDragMove and onDragUp, which keep this render's layout
\* and scale
StartDrag(mac) ==
    /\ PointerEvent
    /\ ui.mounted
    /\ mac \in Rendered
    /\ ~ui.calibMode
    /\ DragStep([ui EXCEPT !.op = "startDrag", !.dragMac = mac,
                           !.dragPending = <<>>, !.dragLastSent = <<>>,
                           !.listeners = Append(ui.listeners,
                                                [layout |-> ui.layout,
                                                 meterToPixel |-> ui.meterToPixel]),
                           !.dragCommits = <<>>, !.release = <<>>],
                <<>>)

\* what the registered onDragMove listeners, run in order, leave pending
MovedTo(u, p) ==
    LET xys == [i \in 1..Len(u.listeners) |->
                   clientToMeters(u.listeners[i], p[1], p[2])]
        got == SelectSeq(xys, LAMBDA xy : xy # <<>>)
    IN  IF got = <<>> THEN u
        ELSE scheduleDragSend(u, u.dragMac, got[Len(got)])

\* window pointermove
DragMove(p) ==
    /\ PointerEvent
    /\ ui.listeners # <<>>
    /\ ui.dragMac # <<>>
    /\ DragStep([MovedTo(ui, p) EXCEPT !.op = "dragMove"], <<>>)

\* window pointerup / pointercancel: every registered onDragUp runs and
\* removes its own render's listeners; the first one finds the drag, the
\* others find dragRef.mac already null
DragUp(p) ==
    /\ PointerEvent
    /\ ui.listeners # <<>>
    /\ IF ui.dragMac = <<>>
       THEN DragStep([endDrag(ui) EXCEPT !.op = "pointerUp", !.listeners = <<>>],
                     <<>>)
       ELSE LET xy == clientToMeters(ui.listeners[1], p[1], p[2])
                f == IF xy = <<>> THEN [u |-> ui, commit |-> <<>>]
                     ELSE flushDragSend([ui EXCEPT !.dragPending = xy])
            IN  DragStep([endDrag(f.u) EXCEPT
                             !.op = "dragUp", !.listeners = <<>>,
                             !.release = <<[p |-> p, xy |-> xy,
                                            env |-> ui.listeners[1]]>>],
                         f.commit)

\* the cleanup of the mount effect: endDrag() of the first render
Unmount ==
    /\ ui.running = <<>>
    /\ UiStep("unmount", [endDrag(ui) EXCEPT !.mounted = FALSE])

\* the window runs the next callback of the frame; a frame takes the
\* callbacks requested before it began
RunFrameCallback ==
    LET starting == ui.running = <<>>
        queue == IF starting THEN ui.frames ELSE ui.running
        f == flushDragSend(ui)
    IN  /\ queue # <<>>
        /\ DragStep([f.u EXCEPT !.op = "frame",
                                !.frames = IF starting THEN <<>> ELSE ui.frames,
                                !.running = Tail(queue),
                                !.frameCommits =
                                    (IF starting THEN 0 ELSE ui.frameCommits)
                                    + (IF f.commit = <<>> THEN 0 ELSE 1)],
                    f.commit)
        /\ UNCHANGED editsLeft

DragPayloads ==
    [kind : {"text"}, ok : {TRUE},
     msg : {FPositions("m1", Arr(<<Item(MacA, 5000, 6000), Item(MacB, 0, 0)>>))}]

InitDrag ==
    /\ WsInit
    /\ startsLeft = StoreStarts
    /\ closesLeft = 0
    /\ sendsLeft = 0
    /\ framesLeft = MaxDragFrames
    /\ editsLeft = MaxDragEvents
    /\ subsLeft = 0

NextDrag ==
    \/ Start
    \/ \E s \in SockIds : OnOpen(s)
    \/ \E s \in SockIds : \E d \in DragPayloads : OnMessage(s, d)
    \/ SelectMap
    \/ ImageLoaded
    \/ \E v \in ScaleInputs : TypeScale(v)
    \/ StartCalibrate
    \/ \E c \in DragClicks : MapClick(c)
    \/ CancelCalibrate
    \/ \E mac \in {MacA, MacB} : StartDrag(mac)
    \/ \E q \in DragPoints : DragMove(q)
    \/ \E q \in DragPoints : DragUp(q)
    \/ RunFrameCallback
    \/ Unmount

SpecDrag == InitDrag /\ [][NextDrag]_vars

(***************************************************************************)
(* The application shell: App subscribes to the connection status when it  *)
(* mounts and asks for the initial data whenever the status it is told is  *)
(* "connected".                                                            *)
(***************************************************************************)
InitialRequests == <<"GetMapList", "GetMapScale", "GetBeaconList">>

\* the wire after the calls send(c) for each c of cmds, numbered from n + 1
RECURSIVE WireAfterSends(_, _, _, _)
WireAfterSends(w, open, n, cmds) ==
    IF cmds = <<>> THEN w
    ELSE WireAfterSends(WireAfterSend(w, open, n + 1, [cmd |-> Head(cmds), v |-> 0]),
                        open, n + 1, Tail(cmds))

\* ws.onopen of socket s with App subscribed: emitStatus("connected") runs
\* App's listener, whose three send() calls go to this.ws
AppOnOpen(s) ==
    /\ socks[s] = "CONNECTING"
    /\ socks' = [socks EXCEPT ![s] = "OPEN"]
    /\ status' = "connected"
    /\ \E open \in {ws # 0 /\ socks'[ws] = "OPEN"} :
         /\ wire' = WireAfterSends(wire, open, sendSeq, InitialRequests)
         /\ dropped' = IF open THEN dropped
                       ELSE dropped \cup (sendSeq + 1)..(sendSeq + Len(InitialRequests))
    /\ sendSeq' = sendSeq + Len(InitialRequests)
    /\ ev' = NoEv
    /\ UNCHANGED <<ws, reconnectTimer, timers, timerSeq, boundOnce,
                   startsLeft, closesLeft, sendsLeft>>
    /\ UNCHANGED <<sendFn, ui, storeState>>

NextApp ==
    \/ Start
    \/ \E s \in SockIds : AppOnOpen(s)
    \/ \E s \in SockIds : BeginClosing(s)
    \/ \E s \in SockIds : OnClose(s)
    \/ \E t \in timers : TimerFire(t)

SpecApp == Init /\ [][NextApp]_vars

(***************************************************************************)
(* Listeners that throw.  A listener is [n, throws]: n is its place in the *)
(* store's Set of listeners (Sets iterate in insertion order), throws says *)
(* whether the callback throws when called.                                *)
(***************************************************************************)
\* MapConfigService.emit wraps each call in try/catch; MapService's
\* loadFromServer and BeaconListService.emit call the listeners bare
Catches(s) == s = "mapConfig"

Throwers(s) == {l \in lis[s] : l.throws}

\* the number of listeners a broadcast of store s calls, and whether the
\* broadcast throws
Notified(s) ==
    IF Catches(s) \/ Throwers(s) = {}
    THEN [calls |-> Cardinality(lis[s]), threw |-> FALSE]
    ELSE [calls |-> CHOOSE n \in 1..Cardinality(lis[s]) :
                      /\ \E l \in Throwers(s) : l.n = n
                      /\ \A l \in Throwers(s) : l.n >= n,
          threw |-> TRUE]

\* s.ingestFrame(msg) with such listeners: the state is assigned before the
\* broadcast; a throw leaves ingestFrame before its return
Offer(s, msg) ==
    LET r == IngestFrame(s, msg)
        n == Notified(s)
    IN  IF r.calls > 0 /\ n.threw
        THEN [r EXCEPT !.ret = FALSE, !.calls = n.calls] @@ [threw |-> TRUE]
        ELSE r @@ [threw |-> FALSE]

NoFaultLog ==
    [order |-> <<>>, handled |-> FALSE, threw |-> {},
     res |-> [s \in Stores |-> Unoffered(s)]]

RECURSIVE OfferLoopUntilThrow(_, _, _)
\* a loop inside one try block: the first throw ends it
OfferLoopUntilThrow(i, msg, log) ==
    IF i > Len(Services) \/ log.threw # {} THEN log
    ELSE LET s == Services[i]
             r == Offer(s, msg)
         IN  OfferLoopUntilThrow(i + 1, msg,
                 [order |-> Append(log.order, s),
                  handled |-> r.ret \/ log.handled,
                  threw |-> IF r.threw THEN log.threw \cup {s} ELSE log.threw,
                  res |-> [log.res EXCEPT ![s] =
                             [ret |-> r.ret, st |-> r.st, fresh |-> r.fresh,
                              calls |-> r.calls, sent |-> r.sent]]])

RECURSIVE OfferLoop(_, _, _)
\* for (const s of services) { try { handled = s.ingestFrame(msg) || handled }
\*                             catch (e) { console.warn(...) } }
OfferLoop(i, msg, log) ==
    IF i > Len(Services) THEN log
    ELSE LET s == Services[i]
             r == Offer(s, msg)
         IN  OfferLoop(i + 1, msg,
                 [order |-> Append(log.order, s),
                  handled |-> r.ret \/ log.handled,
                  threw |-> IF r.threw THEN log.threw \cup {s} ELSE log.threw,
                  res |-> [log.res EXCEPT ![s] =
                             [ret |-> r.ret, st |-> r.st, fresh |-> r.fresh,
                              calls |-> r.calls, sent |-> r.sent]]])

FaultStores == {"maps", "mapConfig", "beaconList"}

\* subscribe(listener): listeners.add(listener); listener(state)
SubscribeFaulty(s, throws) ==
    /\ subsLeft > 0
    /\ subsLeft' = subsLeft - 1
    /\ lis' = [lis EXCEPT ![s] = @ \cup {[n |-> Cardinality(@) + 1, throws |-> throws]}]
    /\ ev' = [NoEv EXCEPT !.op = "subscribe", !.store = s,
                          !.replay = ReplayOnSubscribe(s), !.threw = throws]
    /\ UNCHANGED <<wsVars, sendFn, ui, maps, meterToPixel, results, anchors, ble,
                   rowSeq, beacons, decoding, framesLeft, editsLeft>>

FaultFrames ==
    { FMapList(<<"m1">>),
      [FMapList(<<"m2">>) EXCEPT !.rawT = "object", !.rawMac = Str(MacA)],
      FMapScale(Num(150000)),
      FMacList("MacList", Arr(<<MacLower, MacOne, MacPlain>>)),
      FMac("BeaconRemoved", Str(MacPlain)) }

\* ws.onmessage with a text frame that parses
OnMessageFaulty(s, msg) ==
    /\ framesLeft > 0
    /\ socks[s] = "OPEN"
    /\ framesLeft' = framesLeft - 1
    /\ \E log \in {OfferLoop(1, msg, NoFaultLog)} :
        /\ maps' = log.res["maps"].st
        /\ meterToPixel' = log.res["mapConfig"].st
        /\ results' = log.res["locate"].st
        /\ anchors' = log.res["anchors"].st
        /\ ble' = log.res["ble"].st.ble
        /\ rowSeq' = log.res["ble"].st.rowSeq
        /\ beacons' = log.res["beaconList"].st
        /\ IF log.res["mapConfig"].sent > 0
           THEN DoSend([cmd |-> "SetMapScale", v |-> log.res["mapConfig"].st])
           ELSE UNCHANGED <<wire, dropped, sendSeq>>
        /\ ev' = [NoEv EXCEPT
                    !.op = "dispatch",
                    !.frame = msg,
                    !.order = log.order,
                    !.handled = log.handled,
                    !.store = IF log.threw = {} THEN ""
                              ELSE CHOOSE t \in log.threw : TRUE,
                    !.threw = log.threw # {},
                    !.ret = [t \in Stores |-> log.res[t].ret],
                    !.fresh = [t \in Stores |-> log.res[t].fresh],
                    !.calls = [t \in Stores |-> log.res[t].calls],
                    !.sent = [t \in Stores |-> log.res[t].sent]]
    /\ UNCHANGED <<ws, socks, reconnectTimer, timers, timerSeq, boundOnce,
                   status, startsLeft, closesLeft, sendsLeft>>
    /\ UNCHANGED <<sendFn, ui, lis, decoding, editsLeft, subsLeft>>

InitFaults ==
    /\ WsInit
    /\ startsLeft = StoreStarts
    /\ closesLeft = 0
    /\ sendsLeft = 0
    /\ framesLeft = MaxFaultFrames
    /\ editsLeft = 0
    /\ subsLeft = MaxFaultSubs

NextFaults ==
    \/ Start
    \/ \E s \in SockIds : OnOpen(s)
    \/ \E s \in FaultStores : \E b \in BOOLEAN : SubscribeFaulty(s, b)
    \/ \E s \in SockIds : \E msg \in FaultFrames : OnMessageFaulty(s, msg)

SpecFaults == InitFaults /\ [][NextFaults]_vars

(***************************************************************************)
(* Properties of the calibration                                           *)
(***************************************************************************)
CalibState(u) ==
    IF ~u.calibMode THEN "Idle"
    ELSE IF u.calibModalOpen THEN "AwaitingDistanceInput"
    ELSE "Active"

\* the calibration's own fields
CalibFields(u) ==
    <<u.calibMode, u.calibPoints, u.calibModalOpen, u.calibMeters, u.calibPixelDist>>

\* C23: the list of picked points grows only by one point, through a click
\* inside the rendered image while the calibration is Active with fewer than
\* two points, and the point is the click in native-image pixels; a click
\* outside the image, in Idle or with two points held changes nothing.
C23_PointOnlyByClickInsideWhileActive ==
    [][/\ (Len(ui'.calibPoints) > Len(ui.calibPoints)) =>
            /\ ui'.op = "click"
            /\ CalibState(ui) = "Active"
            /\ Len(ui.calibPoints) < 2
            /\ InImg(ui.layout, ui'.click[1], ui'.click[2])
            /\ Len(ui'.calibPoints) = Len(ui.calibPoints) + 1
            /\ SubSeq(ui'.calibPoints, 1, Len(ui.calibPoints)) = ui.calibPoints
            /\ LET p == ui'.calibPoints[Len(ui'.calibPoints)]
               IN  /\ p.ix * ui.layout.rw = (ui'.click[1] - ui.layout.left) * ui.layout.iw
                   /\ p.iy * ui.layout.rh = (ui'.click[2] - ui.layout.top) * ui.layout.ih
       /\ ( /\ ui'.op = "click"
            /\ \/ ~InImg(ui.layout, ui'.click[1], ui'.click[2])
               \/ CalibState(ui) = "Idle"
               \/ Len(ui.calibPoints) >= 2 ) =>
               /\ CalibFields(ui') = CalibFields(ui)
               /\ meterToPixel' = meterToPixel
               /\ wire' = wire]_vars

\* a first point was picked off the image's origin
C23_Witness ==
    /\ ui.op = "click"
    /\ Len(ui.calibPoints) = 1
    /\ ui.calibPoints[1].ix > 0
    /\ InImg(ui.layout, ui.click[1], ui.click[2])

\* C24: while the calibration awaits the distance it holds exactly two
\* points, and the pixel distance it holds is the Euclidean distance between
\* them in native-image pixels (a whole number of pixels for every pair of
\* points of the run).
C24_AwaitingHoldsTwoPointsAndTheirDistance ==
    CalibState(ui) = "AwaitingDistanceInput" =>
        /\ Len(ui.calibPoints) = 2
        /\ LET dx == ui.calibPoints[2].ix - ui.calibPoints[1].ix
               dy == ui.calibPoints[2].iy - ui.calibPoints[1].iy
               r == ui.calibPixelDist \div 1000      \* whole pixels
           IN  /\ ui.calibPixelDist = 1000 * r
               /\ r >= 0
               /\ r * r = dx * dx + dy * dy

\* two points 40 native pixels apart, neither on an axis of the other
C24_Witness ==
    /\ CalibState(ui) = "AwaitingDistanceInput"
    /\ ui.calibPixelDist = 40000
    /\ ui.calibPoints[1].ix # ui.calibPoints[2].ix
    /\ ui.calibPoints[1].iy # ui.calibPoints[2].iy

\* a confirm in AwaitingDistanceInput with D > 0 and M > 0
ConfirmedWith(u, u2) ==
    /\ u2.op = "confirmCalibrate"
    /\ CalibState(u) = "AwaitingDistanceInput"
    /\ u.calibPixelDist > 0
    /\ u.calibMeters > 0

\* D / M to two decimals, in thousandths
RatioOf(u) == Round2((u.calibPixelDist * 1000) \div u.calibMeters)

\* C25 as claimed: confirming with D > 0 and M > 0 sets the store's ratio to
\* D/M rounded to two decimals, emits one set-scale command and returns the
\* calibration to Idle.
C25_ConfirmCommitsAndSends ==
    [][ConfirmedWith(ui, ui') =>
          /\ meterToPixel' = RatioOf(ui)
          /\ sendSeq' = sendSeq + 1
          /\ CalibState(ui') = "Idle"]_vars

\* C25: confirming with D > 0 and M > 0 returns the calibration to Idle with
\* no points; a ratio D/M that is positive after rounding to two decimals
\* becomes the store's ratio, one that rounds to 0 leaves the store alone;
\* exactly one set-scale command carrying the ratio is handed to the
\* transport when the ratio is positive, differs from the stored one and the
\* sender is bound, and none otherwise.
C25_ConfirmCommitsRoundedAndSendsOnChange ==
    [][ConfirmedWith(ui, ui') =>
          /\ CalibState(ui') = "Idle"
          /\ ui'.calibPoints = <<>>
          /\ meterToPixel' = IF RatioOf(ui) > 0 THEN RatioOf(ui) ELSE meterToPixel
          /\ IF RatioOf(ui) > 0 /\ RatioOf(ui) # meterToPixel /\ sendFn
             THEN /\ sendSeq' = sendSeq + 1
                  /\ ev'.out = <<[cmd |-> "SetMapScale", v |-> RatioOf(ui)]>>
                  /\ IF SocketOpen
                     THEN wire' = Append(wire, [id |-> sendSeq', msg |-> ev'.out[1]])
                     ELSE wire' = wire /\ dropped' = dropped \cup {sendSeq'}
             ELSE /\ sendSeq' = sendSeq
                  /\ wire' = wire]_vars

\* a confirmed calibration whose ratio was stored and put on the wire
C25_Witness ==
    /\ ui.op = "confirmCalibrate"
    /\ CalibState(ui) = "Idle"
    /\ meterToPixel # DefaultMeterToPixel
    /\ wire # <<>>
    /\ wire[Len(wire)].msg = [cmd |-> "SetMapScale", v |-> meterToPixel]
    /\ ev.op = "setMeterToPixel"

\* C26: confirming in AwaitingDistanceInput with a distance M <= 0 changes
\* nothing: the store's ratio stays, no command is emitted, and the
\* calibration stays in AwaitingDistanceInput with its points, pixel distance
\* and typed distance.
C26_NonPositiveMetersChangesNothing ==
    [][(/\ ui'.op = "confirmCalibrate"
        /\ CalibState(ui) = "AwaitingDistanceInput"
        /\ ui.calibMeters <= 0) =>
          /\ meterToPixel' = meterToPixel
          /\ sendSeq' = sendSeq
          /\ wire' = wire
          /\ dropped' = dropped
          /\ CalibFields(ui') = CalibFields(ui)
          /\ CalibState(ui') = "AwaitingDistanceInput"]_vars

\* a confirm pressed with -1 in the distance box, the dialog still open
C26_Witness ==
    /\ ui.op = "confirmCalibrate"
    /\ CalibState(ui) = "AwaitingDistanceInput"
    /\ ui.calibMeters < 0
    /\ ui.calibPixelDist > 0
    /\ sendFn

\* what a session starts from: no point, no pixel distance, 1 m entered
FreshSession(u) ==
    /\ u.calibPoints = <<>>
    /\ u.calibPixelDist = 0
    /\ u.calibMeters = NoUi.calibMeters
    /\ ~u.calibModalOpen

\* C27: cancelling from Active or AwaitingDistanceInput leaves the
\* calibration Idle with no points and all its fields as before any session,
\* the store's ratio as it was and nothing emitted; starting a calibration
\* begins from no points, no pixel distance and the default distance; and
\* until the second point is picked an Active session shows no pixel distance
\* and no entered distance of an earlier one, and Idle holds no points.
C27_CancelDiscardsAndSessionsStartFresh ==
    /\ [](/\ CalibState(ui) = "Idle" => ui.calibPoints = <<>>
          /\ CalibState(ui) = "Active" =>
                /\ ui.calibPixelDist = 0
                /\ ui.calibMeters = NoUi.calibMeters
                /\ Len(ui.calibPoints) < 2)
    /\ [][/\ (ui'.op = "cancelCalibrate" /\ CalibState(ui) # "Idle") =>
                /\ CalibState(ui') = "Idle"
                /\ FreshSession(ui')
                /\ meterToPixel' = meterToPixel
                /\ sendSeq' = sendSeq
                /\ wire' = wire
                /\ dropped' = dropped
          /\ (ui'.op = "startCalibrate") =>
                /\ CalibState(ui') = "Active"
                /\ FreshSession(ui')]_vars

\* a session cancelled from the open dialog after a distance was typed, with
\* the ratio of an earlier confirmed session in the store
C27_Witness ==
    /\ ui.op = "cancelCalibrate"
    /\ CalibState(ui) = "Idle"
    /\ FreshSession(ui)
    /\ meterToPixel # DefaultMeterToPixel
    /\ wire # <<>>

\* a second session started after a confirmed one
C27_LaterSession ==
    /\ ui.op = "startCalibrate"
    /\ meterToPixel # DefaultMeterToPixel

\* C28 as claimed: a frame executes at most one scheduled commit, and at most
\* one frame callback is pending at any time.
C28_OneCommitAndOneCallbackPerFrame ==
    /\ ui.frameCommits <= 1
    /\ Len(ui.frames) <= 1

\* the first half alone
C28_OneCommitPerFrame == ui.frameCommits <= 1

\* the commits of the drag in progress, or of the last one
SameTwice(q) == \E i \in 1..(Len(q) - 1) : q[i] = q[i + 1]

\* this step is the component's handler op (a step of the transport or of
\* a store leaves ui as it is)
UiDoes(op) == ui' # ui /\ ui'.op = op

\* a flushDragSend is run in this step with the coordinates xy pending
Flushes(xy) ==
    \/ /\ UiDoes("frame")
       /\ ui.dragMac # <<>>
       /\ ui.dragPending = xy
    \/ /\ UiDoes("dragUp")
       /\ ui'.release # <<>>
       /\ ui'.release[1].xy = xy

\* C29: within one drag no two consecutive commits carry the same
\* coordinates, and a flush whose pending coordinates (rounded to two
\* decimals) equal those of the drag's last commit calls nothing: the anchors
\* and the outbound sequence stay as they were.
C29_NoEqualConsecutiveCommits ==
    /\ [](~SameTwice(ui.dragCommits))
    /\ [][(/\ ui.dragCommits # <<>>
           /\ Flushes(ui.dragCommits[Len(ui.dragCommits)])) =>
             /\ anchors' = anchors
             /\ sendSeq' = sendSeq
             /\ wire' = wire
             /\ ui'.dragCommits = ui.dragCommits]_vars

\* a frame that found a second position pending which rounds to the
\* coordinates already committed in this drag, and committed nothing
C29_Witness ==
    /\ ui.op = "frame"
    /\ ui.dragMac # <<>>
    /\ Len(ui.dragCommits) = 1
    /\ ui.dragPending = ui.dragCommits[1]
    /\ ui.dragLastSent = ui.dragPending
    /\ ev.op = NoEv.op
    /\ sendSeq = 1

\* the last element
Last(q) == q[Len(q)]

\* the coordinates of the position where the pointer was released
Released(u) == u.release[1].xy

\* C30 as claimed: a pointer-up or pointer-cancel during a drag commits the
\* release position before the drag state is released, unless it repeats the
\* drag's last commit, so the drag's last commit carries the release position.
C30_ReleaseIsCommitted ==
    [][UiDoes("dragUp") =>
          /\ ui'.dragCommits # <<>>
          /\ Last(ui'.dragCommits) = Released(ui')
          /\ ui'.dragMac = <<>>]_vars

\* a release that the oldest registered listener could not convert although
\* the image is laid out and the scale shown is positive
StaleRelease ==
    /\ ui.op = "dragUp"
    /\ Released(ui) = <<>>
    /\ ui.dragCommits = <<>>
    /\ ui.layout # NoLayout
    /\ ui.meterToPixel > 0

\* C31 as claimed: once a drag has ended, no frame callback remains
\* pending, and no anchor commit is made until a new drag begins.
C31_EndedDragLeavesNothingPending ==
    /\ [](ui.dragMac = <<>> => (ui.frames = <<>> /\ ui.running = <<>>))
    /\ [][ui.dragMac = <<>> /\ ui'.dragMac = <<>> =>
             (ev'.op # "setCoord" /\ sendSeq' = sendSeq)]_vars

\* the second half alone: no commit between the end of a drag and the next
C31_NoCommitAfterEnd ==
    [][ui.dragMac = <<>> /\ ui'.dragMac = <<>> =>
          (ev'.op # "setCoord" /\ sendSeq' = sendSeq)]_vars

\* C32 as claimed: the step that ends a drag leaves no window pointer
\* listener registered.
C32_EndRemovesListeners ==
    [][ui.dragMac # <<>> /\ ui'.dragMac = <<>> => ui'.listeners = <<>>]_vars

\* the anchor render, px = offset.left + ax * scale.sx * meterToPixel and
\* py = offset.top + renderSize.height - ay * scale.sy * meterToPixel, against
\* the pointer position p; both sides are scaled by 10^4 * iw (ih) so that
\* the comparison is exact: TRUE when the rendered pixel is within 0.01 of p
BackWithinHundredth(env, p, xy) ==
    LET l == env.layout
        m10 == env.meterToPixel \div 10
        ex == (xy[1] \div 10) * l.rw * m10 - (p[1] - l.left) * l.iw * 10000
        ey == (l.rh - (p[2] - l.top)) * l.ih * 10000 - (xy[2] \div 10) * l.rh * m10
    IN  /\ Abs(ex) <= 100 * l.iw
        /\ Abs(ey) <= 100 * l.ih

\* C33 as claimed: a container point inside the rendered image, converted to
\* world coordinates and rendered back, is within 0.01 pixel of itself on
\* each axis.
C33_RoundTripWithinHundredth ==
    (/\ ui.release # <<>>
     /\ Released(ui) # <<>>
     /\ InImg(ui.release[1].env.layout, ui.release[1].p[1], ui.release[1].p[2])) =>
        BackWithinHundredth(ui.release[1].env, ui.release[1].p, Released(ui))

\* C34 as claimed: frames reach the stores in the order of their arrival: a
\* text frame is not handled while an earlier binary frame is still being
\* decoded, and binary frames leave the decoding in the order they came.
C34_DispatchInArrivalOrder ==
    [][/\ (framesLeft' < framesLeft /\ ev'.op # "blob") => decoding = <<>>
       /\ (Len(decoding') < Len(decoding)) => decoding' = Tail(decoding)]_vars

\* the scale of a text frame overwritten by that of a binary frame that
\* arrived before it
C34_OlderFrameWins ==
    /\ framesLeft = 0
    /\ decoding = <<>>
    /\ ev.op = "dispatch"
    /\ ev.frame = FMapScale(Num(150000))
    /\ meterToPixel = 150000

\* the calls of App's listener in the step that opens socket s
Opens(s) == socks[s] = "CONNECTING" /\ socks'[s] = "OPEN"

RequestsSent ==
    /\ Len(wire') = Len(wire) + Len(InitialRequests)
    /\ \A i \in 1..Len(InitialRequests) :
         wire'[Len(wire) + i].msg.cmd = InitialRequests[i]

\* C36 as claimed: whenever a connection opens, the three initial requests
\* (map list, scale, beacon list) are transmitted on that connection.
C36_InitialRequestsOnEachOpen ==
    [][\A s \in SockIds : Opens(s) => (ws = s /\ RequestsSent)]_vars

\* the requests of an open event were dropped: the status is Connected, a
\* socket is open, the handle is null and nothing of it was transmitted
C36_RequestsDropped ==
    /\ status = "connected"
    /\ ws = 0
    /\ \E s \in SockIds : socks[s] = "OPEN"
    /\ Len(wire) = Len(InitialRequests)
    /\ Cardinality(dropped) = Len(InitialRequests)

\* the requests of an open event went out on another connection than the
\* one that opened
C36_RequestsOnOtherSocket ==
    /\ Len(wire) = 2 * Len(InitialRequests)
    /\ ws # 0
    /\ \E s \in SockIds : s # ws /\ socks[s] = "OPEN" /\ socks[ws] = "OPEN"

\* with one connection at a time, every open event transmits the requests
C36_SentWhenHandleIsCurrent ==
    [][\A s \in SockIds : (Opens(s) /\ ws = s) => RequestsSent]_vars

\* C37 as claimed: a store that throws on a frame does not stop the loop:
\* every store is offered that frame, in the order of the list, and the next
\* frame of an open connection can still be handled.
C37_ThrowDoesNotStopDispatch ==
    /\ ev.op = "dispatch" => ev.order = Services
    /\ (ev.op = "dispatch" /\ ev.threw /\ framesLeft > 0) =>
          ENABLED (\E s \in SockIds : \E msg \in FaultFrames : OnMessageFaulty(s, msg))

\* the map store threw on a map list that also carries a raw advertisement,
\* and the telemetry store, later in the order, took the frame
C37_Witness ==
    /\ ev.op = "dispatch"
    /\ ev.threw
    /\ ev.store = "maps"
    /\ ev.ret["ble"]
    /\ ev.order = Services
    /\ framesLeft = 0

\* C40 as claimed: a broadcast reaches every listener of the store, also
\* when one of them throws.
C40_ThrowingListenerSkipsNobody ==
    ev.op = "dispatch" =>
        \A s \in Stores : ev.calls[s] \in {0, Cardinality(lis[s])}

\* the stores whose broadcast catches do notify everybody
C40_CatchingStoresNotifyAll ==
    ev.op = "dispatch" =>
        \A s \in Stores : Catches(s) => ev.calls[s] \in {0, Cardinality(lis[s])}

\* the scale store broadcast to both listeners although the first throws
C40_CaughtThrow ==
    /\ ev.op = "dispatch"
    /\ ev.calls["mapConfig"] = 2
    /\ Throwers("mapConfig") # {}

\* the step appends a command cmd to what the manager was asked to send
Asks(cmd) ==
    /\ sendSeq' = sendSeq + 1
    /\ ev'.sent["beaconList"] + Len(ev'.out) > 0
    /\ \/ ev'.out # <<>> /\ ev'.out[1].cmd = cmd
       \/ ev'.op = "dispatch" /\ cmd = "RemoveBeacon"

\* C38 as claimed: handling an inbound frame of the beacon list (full list,
\* added, removed) calls send() for nothing, and a remove command is only
\* ever sent by the local removeBeacon.
C38_InboundBeaconFramesSendNothing ==
    [][/\ ev'.op = "dispatch" =>
            (sendSeq' = sendSeq /\ wire' = wire /\ dropped' = dropped)
       /\ Asks("RemoveBeacon") => ev'.op = "removeBeacon"]_vars

\* a removed-frame took an identity off the list and nothing was ever sent,
\* after a local remove had sent its command
C38_Witness ==
    /\ ev.op = "dispatch"
    /\ ev.frame.cmd \in RemovedTags
    /\ ev.fresh["beaconList"]
    /\ sendSeq = 1
    /\ Len(wire) = 1
    /\ wire[1].msg.cmd = "RemoveBeacon"

\* C39 as claimed: while calibration is Active or AwaitingDistanceInput no
\* drag is in progress; no drag begins in those states, and no step taken in
\* or into those states commits an anchor position.
C39_NoDragWhileCalibrating ==
    /\ [](CalibState(ui) # "Idle" => (ui.dragMac = <<>> /\ ui.dragPending = <<>>))
    /\ [][/\ CalibState(ui) # "Idle" => ~UiDoes("startDrag")
          /\ (CalibState(ui) # "Idle" \/ CalibState(ui') # "Idle") =>
                (ev'.op # "setCoord" /\ sendSeq' = sendSeq)]_vars

\* calibration was started in the middle of a drag: the drag's listeners
\* are still registered, its anchor is no longer dragged
C39_Witness ==
    /\ ui.op = "startCalibrate"
    /\ CalibState(ui) = "Active"
    /\ ui.listeners # <<>>
    /\ ui.dragCommits # <<>>
    /\ ui.dragMac = <<>>

\* the dialog is open after a drag was cut short by the calibration
C39_AwaitingAfterDrag ==
    /\ CalibState(ui) = "AwaitingDistanceInput"
    /\ ui.listeners # <<>>

\* the points of the session were all picked on map m
AllPickedOn(u, m) == \A i \in 1..Len(u.pickedOn) : u.pickedOn[i] = m

\* a confirmCalibrate that passed its tests
ConfirmAccepted == UiDoes("confirmCalibrate") /\ ui.calibMode /\ ~ui'.calibMode

\* C35 as claimed: the points of a session are all picked on one map, and a
\* confirmed ratio is committed while that map is the selected one.
C35_PointsAndCommitOnOneMap ==
    /\ [](\A i, j \in 1..Len(ui.pickedOn) : ui.pickedOn[i] = ui.pickedOn[j])
    /\ [][ConfirmAccepted => AllPickedOn(ui, anchors.currentMapId)]_vars

\* the dialog is open on a distance between a point of one map and a point
\* of another
C35_MixedPoints ==
    /\ ui.calibModalOpen
    /\ ui.pickedOn = <<"m1", "m2">>
    /\ ui.calibPixelDist > 0

\* without a switch during the session the points and the commit are on the
\* selected map
C35_OneMapWithoutSwitch ==
    [][ConfirmAccepted => AllPickedOn(ui, anchors.currentMapId)]_vars

====
